---- MODULE Spec2Model ----
(***************************************************************************)
(* CGPA_CAL: the grade / GPA / CGPA engine (gradeService, the last part of *)
(* src/src/App.tsx) and the data service that keeps departments, courses,  *)
(* curriculum, students and results in the browser's localStorage          *)
(* (dataService, the middle part of src/src/App.tsx).                      *)
(*                                                                         *)
(* Every engine function is a pure function of its arguments.  The         *)
(* variables score, grade, results, semesterResults, pxuArgs and cgpa hold *)
(* the arguments of a call, fn names the function called last and ret is   *)
(* what that call returned or threw.  localStorage is the stored data.     *)
(*                                                                         *)
(* A string that the engine inspects is a sequence of one-character        *)
(* strings, so that toUpperCase is computed character by character.  A gpa *)
(* or cgpa is held in hundredths: the integer h stands for the double      *)
(* nearest to h / 100, which is what Math.round(x * 100) / 100 evaluates   *)
(* to.                                                                     *)
(***************************************************************************)
EXTENDS Integers, Sequences, FiniteSets, TLC

VARIABLES
    score,            \* argument of scoreToGrade / scoreToPoint
    grade,            \* argument of gradeToPoint
    results,          \* argument of calculateGPA
    semesterResults,  \* argument of calculateCGPA
    pxuArgs,          \* arguments gradePoint and courseUnit of calculatePXU
    cgpa,             \* argument of getClassOfDegree, in hundredths
    localStorage,     \* the browser's localStorage: one item per storage key
    fn,               \* the function called last ("none" before any call)
    gradeEntry,       \* the local gradeEntry of the last band lookup
    ret,              \* outcome of the last call: Return(v) or Throw(name, message)
    filter,           \* App's filter state: null or the selection
    refreshTrigger,   \* App's refreshTrigger state
    scoreEntry        \* ScoreEntry's state: curriculum, students, scores,
                      \* saving, message

vars == <<score, grade, results, semesterResults, pxuArgs, cgpa, localStorage,
          fn, gradeEntry, ret, filter, refreshTrigger, scoreEntry>>

app == <<filter, refreshTrigger, scoreEntry>>

inputs == <<score, grade, results, semesterResults, pxuArgs, cgpa>>

(***************************************************************************)
(* Bounds of the model.                                                    *)
(***************************************************************************)
\* scores are drawn from -ScoreSlack .. 100 + ScoreSlack
ScoreSlack == 5
\* grade strings have at most MaxGradeLen characters
MaxGradeLen == 2
\* course lists and semester lists have at most MaxLen elements
MaxLen == 2
\* a course carries at most MaxUnit units
MaxUnit == 3
\* a semester aggregate carries at most MaxSemUnits units and MaxSemPoints points
MaxSemUnits == 2
MaxSemPoints == 3
\* the largest course unit of the rounding study
RoundMaxUnit == 23
\* class-of-degree arguments are drawn from -CgpaSlack .. 500 + CgpaSlack
CgpaSlack == 5
\* the semester lists of the folding study have at most MaxFoldLen elements
MaxFoldLen == 3
\* saveResults is called with at most MaxEntries entries
MaxEntries == 2
\* in the study of the reports saveResults is called with at most MaxSaved
\* entries
MaxSaved == 1
\* the text typed into a score input has at most MaxValueLen characters
MaxValueLen == 3
\* handleSave is followed until refreshTrigger has reached MaxRefresh
MaxRefresh == 2

(***************************************************************************)
(* Outcomes of a call.                                                     *)
(***************************************************************************)
Return(v) == [kind |-> "return", val |-> v]

Throw(name, message) == [kind |-> "throw", name |-> name, message |-> message]

NoCall == [kind |-> "none"]

\* the value of Array.prototype.find when no element satisfies the predicate
undefined == [minScore |-> -1, maxScore |-> -1, grade |-> <<>>, point |-> -1,
              found |-> FALSE]

(***************************************************************************)
(* Grading scale, App.tsx 798-805.                                         *)
(***************************************************************************)
Band(lo, hi, g, p) ==
    [minScore |-> lo, maxScore |-> hi, grade |-> <<g>>, point |-> p, found |-> TRUE]

GRADING_SCALE_GapAt69 ==
    << Band(70, 100, "A", 5), Band(60, 68, "B", 4), Band(50, 59, "C", 3),
       Band(45, 49, "D", 2), Band(40, 44, "E", 1), Band(0, 39, "F", 0) >>

GRADING_SCALE_SwappedDE ==
    << Band(70, 100, "A", 5), Band(60, 69, "B", 4), Band(50, 59, "C", 3),
       Band(45, 49, "E", 1), Band(40, 44, "D", 2), Band(0, 39, "F", 0) >>

GRADING_SCALE_DuplicateB ==
    << Band(70, 100, "A", 5), Band(60, 69, "B", 4), Band(50, 59, "B", 3),
       Band(45, 49, "D", 2), Band(40, 44, "E", 1), Band(0, 39, "F", 0) >>

GRADING_SCALE ==
    << Band(70, 100, "A", 5), Band(60, 69, "B", 4), Band(50, 59, "C", 3),
       Band(45, 49, "D", 2), Band(40, 44, "E", 1), Band(0, 39, "F", 0) >>

\* Array.prototype.find over the grading scale: the first of the elements
\* that satisfy the predicate, whose indices are hits; undefined when there
\* is none.
Find(hits) ==
    IF hits = {} THEN undefined
    ELSE GRADING_SCALE[CHOOSE i \in hits : \A j \in hits : i <= j]

Indices == 1..Len(GRADING_SCALE)

\* String.prototype.toUpperCase on the characters the model draws
UpperChar(c) ==
    CASE c = "a" -> "A" [] c = "b" -> "B" [] c = "c" -> "C"
      [] c = "d" -> "D" [] c = "e" -> "E" [] c = "f" -> "F"
      [] c = "z" -> "Z" [] OTHER -> c

toUpperCase(s) == [i \in 1..Len(s) |-> UpperChar(s[i])]

(***************************************************************************)
(* scoreToGrade, App.tsx 812-823.                                          *)
(***************************************************************************)
ScoreBand_StrictMax(s) ==
    Find({i \in Indices : s >= GRADING_SCALE[i].minScore /\ s < GRADING_SCALE[i].maxScore})

ScoreBand(s) ==
    Find({i \in Indices : s >= GRADING_SCALE[i].minScore /\ s <= GRADING_SCALE[i].maxScore})

scoreToGrade_NoRangeCheck(s) ==
    LET entry == ScoreBand(s)
    IN  Return(IF entry.found /\ entry.grade # <<>> THEN entry.grade ELSE <<"F">>)

scoreToGrade(s) ==
    IF s < 0 \/ s > 100
    THEN Throw("Error", "Score must be between 0 and 100")
    ELSE LET entry == ScoreBand(s)
         IN  Return(IF entry.found /\ entry.grade # <<>> THEN entry.grade ELSE <<"F">>)

(***************************************************************************)
(* gradeToPoint, App.tsx 830-833.                                          *)
(***************************************************************************)
GradeBand(g) == Find({i \in Indices : GRADING_SCALE[i].grade = toUpperCase(g)})

gradeToPoint_CaseSensitive(g) ==
    LET entry == Find({i \in Indices : GRADING_SCALE[i].grade = g})
    IN  IF entry.found /\ entry.point # 0 THEN entry.point ELSE 0

gradeToPoint_FirstOnUnknown(g) ==
    LET entry == GradeBand(g)
    IN  IF entry.found THEN entry.point ELSE GRADING_SCALE[1].point

gradeToPoint(g) ==
    LET entry == GradeBand(g)
    IN  IF entry.found /\ entry.point # 0 THEN entry.point ELSE 0

(***************************************************************************)
(* scoreToPoint, App.tsx 840-843: a throw of scoreToGrade propagates.      *)
(***************************************************************************)
scoreToPoint(s) ==
    LET g == scoreToGrade(s)
    IN  IF g.kind = "throw" THEN g ELSE Return(gradeToPoint(g.val))

(***************************************************************************)
(* JavaScript numbers are IEEE 754 binary64.  Sums and products of the     *)
(* integers of the model are exact; the quotient totalPoints / totalUnits  *)
(* and its product with 100 are each rounded to the nearest double, ties   *)
(* to even.  A nonzero double is sign * 1.f * 2^exp, where the 52 fraction *)
(* bits f are held as four limbs of 13 bits, most significant first.       *)
(* The operators are exact for totals below 2^14 and values below 2^26,    *)
(* far beyond what the model draws.                                        *)
(***************************************************************************)
LimbBits == 13

Limb == 8192

Abs(x) == IF x < 0 THEN 0 - x ELSE x

Sign(x) == IF x < 0 THEN 0 - 1 ELSE 1

RECURSIVE Pow2(_)
Pow2(k) == IF k = 0 THEN 1 ELSE 2 * Pow2(k - 1)

\* the e with 2^e <= n / d < 2^(e+1), for n > 0 and d > 0
RECURSIVE Exponent(_, _)
Exponent(n, d) ==
    IF n >= 2 * d THEN Exponent(n, 2 * d) + 1
    ELSE IF n < d THEN Exponent(2 * n, d) - 1
    ELSE 0

Zero == [zero |-> TRUE, sign |-> 1, exp |-> 0, frac |-> <<0, 0, 0, 0>>]

\* the fraction plus one unit in the last place; <<0,0,0,0>> on a carry out
NextUp(f) ==
    IF f[4] + 1 < Limb THEN <<f[1], f[2], f[3], f[4] + 1>>
    ELSE IF f[3] + 1 < Limb THEN <<f[1], f[2], f[3] + 1, 0>>
    ELSE IF f[2] + 1 < Limb THEN <<f[1], f[2] + 1, 0, 0>>
    ELSE IF f[1] + 1 < Limb THEN <<f[1] + 1, 0, 0, 0>>
    ELSE <<0, 0, 0, 0>>

\* Round to nearest, ties to even: f are the 52 fraction bits kept, tail
\* compares what was cut off with half a unit in the last place (-1 below,
\* 0 a tie, 1 above).  A carry out of the fraction doubles the value.
RoundNearestEven(sign, f, tail, exp) ==
    LET up == tail > 0 \/ (tail = 0 /\ f[4] % 2 = 1)
        carry == up /\ f = <<Limb - 1, Limb - 1, Limb - 1, Limb - 1>>
    IN  [zero |-> FALSE, sign |-> sign,
         exp |-> IF carry THEN exp + 1 ELSE exp,
         frac |-> IF up THEN NextUp(f) ELSE f]

Compare(x, y) == IF x > y THEN 1 ELSE IF x = y THEN 0 ELSE 0 - 1

\* the double p / u of two integers, u # 0 (both callers return before the
\* division when totalUnits is 0): long division, 13 bits at a time
DoubleDiv(p, u) ==
    IF p = 0 THEN Zero
    ELSE LET n == Abs(p)
             d == Abs(u)
             e == Exponent(n, d)
             n1 == IF e < 0 THEN n * Pow2(0 - e) ELSE n
             d1 == IF e > 0 THEN d * Pow2(e) ELSE d
             r0 == n1 - d1
             q1 == (r0 * Limb) \div d1
             r1 == (r0 * Limb) % d1
             q2 == (r1 * Limb) \div d1
             r2 == (r1 * Limb) % d1
             q3 == (r2 * Limb) \div d1
             r3 == (r2 * Limb) % d1
             q4 == (r3 * Limb) \div d1
             r4 == (r3 * Limb) % d1
         IN  RoundNearestEven(Sign(p) * Sign(u), <<q1, q2, q3, q4>>,
                              Compare(2 * r4, d1), e)

\* the double x * 100: the exact product of the significand, limb by limb,
\* then shifted right by 6 or 7 bits back to 53 bits and rounded
TimesHundred(x) ==
    IF x.zero THEN Zero
    ELSE LET f == x.frac
             c4 == f[4] * 100
             c3 == f[3] * 100 + c4 \div Limb
             c2 == f[2] * 100 + c3 \div Limb
             c1 == f[1] * 100 + c2 \div Limb
             top == 100 + c1 \div Limb
             shift == IF top < 128 THEN 6 ELSE 7
             cut == Pow2(shift)
             up == Pow2(LimbBits - shift)
             o1 == c1 % Limb
             o2 == c2 % Limb
             o3 == c3 % Limb
             o4 == c4 % Limb
             kept == << (top % cut) * up + o1 \div cut,
                        (o1 % cut) * up + o2 \div cut,
                        (o2 % cut) * up + o3 \div cut,
                        (o3 % cut) * up + o4 \div cut >>
         IN  RoundNearestEven(x.sign, kept, Compare(2 * (o4 % cut), cut),
                              x.exp + shift)

\* Math.round: the nearest integer, a tie going towards +Infinity
MathRound(x) ==
    IF x.zero THEN 0
    ELSE LET hi == x.frac[1] * Limb + x.frac[2]
             lo == x.frac[3] * Limb + x.frac[4]
             one == IF x.exp < 0 THEN 1 ELSE Pow2(2 * LimbBits - x.exp)
             int == IF x.exp < 0 THEN 0 ELSE Pow2(x.exp) + hi \div one
             rest == IF x.exp < 0 THEN hi ELSE hi % one
             half == IF x.exp < 0 THEN x.exp = 0 - 1 ELSE 2 * rest >= one
             above == IF x.exp < 0 THEN half /\ (hi > 0 \/ lo > 0)
                      ELSE half /\ (2 * rest > one \/ lo > 0)
         IN  IF x.sign > 0 THEN (IF half THEN int + 1 ELSE int)
             ELSE 0 - (IF above THEN int + 1 ELSE int)

\* Math.round((p / u) * 100) / 100, in hundredths
RoundToHundredths(p, u) == MathRound(TimesHundred(DoubleDiv(p, u)))

(***************************************************************************)
(* calculateGPA, App.tsx 861-885.                                          *)
(***************************************************************************)
\* Array.prototype.reduce((sum, x) => sum + term(x), 0): a left fold from 0
\* over the first k of the terms xs
RECURSIVE Reduce(_, _)
Reduce(xs, k) ==
    IF k = 0 THEN 0 ELSE Reduce(xs, k - 1) + xs[k]

SumOf(xs) == Reduce(xs, Len(xs))

Units(rs) == [i \in DOMAIN rs |-> rs[i].courseUnit]

Points(rs) == [i \in DOMAIN rs |-> rs[i].gradePoint * rs[i].courseUnit]

SemesterUnits(ss) == [i \in DOMAIN ss |-> ss[i].totalUnits]

SemesterPoints(ss) == [i \in DOMAIN ss |-> ss[i].totalPoints]

calculateGPA_KeepsTotals(rs) ==
    LET totalUnits == SumOf(Units(rs))
        totalPoints == SumOf(Points(rs))
    IN  IF totalUnits = 0
        THEN [gpa |-> 0, totalUnits |-> totalUnits, totalPoints |-> totalPoints]
        ELSE [gpa |-> RoundToHundredths(totalPoints, totalUnits),
              totalUnits |-> totalUnits, totalPoints |-> totalPoints]

calculateGPA_SumsGradePoints(rs) ==
    LET totalUnits == SumOf(Units(rs))
        totalPoints == SumOf([i \in DOMAIN rs |-> rs[i].gradePoint])
    IN  IF Len(rs) = 0 \/ totalUnits = 0
        THEN [gpa |-> 0, totalUnits |-> 0, totalPoints |-> 0]
        ELSE [gpa |-> RoundToHundredths(totalPoints, totalUnits),
              totalUnits |-> totalUnits, totalPoints |-> totalPoints]

calculateGPA_WeightsTwice(rs) ==
    IF Len(rs) = 0
    THEN [gpa |-> 0, totalUnits |-> 0, totalPoints |-> 0]
    ELSE LET totalUnits == SumOf(Units(rs))
             totalPoints == SumOf([i \in DOMAIN rs |->
                                      rs[i].gradePoint * rs[i].courseUnit * rs[i].courseUnit])
         IN  IF totalUnits = 0
             THEN [gpa |-> 0, totalUnits |-> 0, totalPoints |-> 0]
             ELSE [gpa |-> RoundToHundredths(totalPoints, totalUnits),
                   totalUnits |-> totalUnits, totalPoints |-> totalPoints]

calculateGPA(rs) ==
    IF Len(rs) = 0
    THEN [gpa |-> 0, totalUnits |-> 0, totalPoints |-> 0]
    ELSE LET totalUnits == SumOf(Units(rs))
             totalPoints == SumOf(Points(rs))
         IN  IF totalUnits = 0
             THEN [gpa |-> 0, totalUnits |-> 0, totalPoints |-> 0]
             ELSE [gpa |-> RoundToHundredths(totalPoints, totalUnits),
                   totalUnits |-> totalUnits, totalPoints |-> totalPoints]

(***************************************************************************)
(* calculateCGPA, App.tsx 893-917.                                         *)
(***************************************************************************)
calculateCGPA_MultipliesUnits(ss) ==
    IF Len(ss) = 0
    THEN [cgpa |-> 0, totalUnits |-> 0, totalPoints |-> 0]
    ELSE LET totalUnits == SumOf(SemesterUnits(ss))
             totalPoints == SumOf([i \in DOMAIN ss |->
                                      ss[i].totalPoints * ss[i].totalUnits])
         IN  IF totalUnits = 0
             THEN [cgpa |-> 0, totalUnits |-> 0, totalPoints |-> 0]
             ELSE [cgpa |-> RoundToHundredths(totalPoints, totalUnits),
                   totalUnits |-> totalUnits, totalPoints |-> totalPoints]

calculateCGPA_Truncates(ss) ==
    IF Len(ss) = 0
    THEN [cgpa |-> 0, totalUnits |-> 0, totalPoints |-> 0]
    ELSE LET totalUnits == SumOf(SemesterUnits(ss))
             totalPoints == SumOf(SemesterPoints(ss))
         IN  IF totalUnits = 0
             THEN [cgpa |-> 0, totalUnits |-> 0, totalPoints |-> 0]
             ELSE [cgpa |-> (100 * totalPoints) \div totalUnits,
                   totalUnits |-> totalUnits, totalPoints |-> totalPoints]

calculateCGPA(ss) ==
    IF Len(ss) = 0
    THEN [cgpa |-> 0, totalUnits |-> 0, totalPoints |-> 0]
    ELSE LET totalUnits == SumOf(SemesterUnits(ss))
             totalPoints == SumOf(SemesterPoints(ss))
         IN  IF totalUnits = 0
             THEN [cgpa |-> 0, totalUnits |-> 0, totalPoints |-> 0]
             ELSE [cgpa |-> RoundToHundredths(totalPoints, totalUnits),
                   totalUnits |-> totalUnits, totalPoints |-> totalPoints]

(***************************************************************************)
(* The per-semester aggregates getStudentCGPA hands to calculateCGPA,      *)
(* App.tsx 669-696: calculateGPA of each semester's courses, of which the  *)
(* totalUnits and totalPoints are passed on.                               *)
(***************************************************************************)
SemesterTotals_FromRoundedGpa(g) ==
    [totalUnits |-> g.totalUnits, totalPoints |-> (g.gpa * g.totalUnits) \div 100]

SemesterTotals(g) == [totalUnits |-> g.totalUnits, totalPoints |-> g.totalPoints]

\* the courses rs taken in up to three semesters: courses 1..j, j+1..k and
\* k+1..Len(rs); a semester without courses is no semester
SemesterGPAs(rs, j, k) ==
    (IF j >= 1 THEN <<calculateGPA(SubSeq(rs, 1, j))>> ELSE <<>>)
    \o (IF k > j THEN <<calculateGPA(SubSeq(rs, j + 1, k))>> ELSE <<>>)
    \o (IF Len(rs) > k THEN <<calculateGPA(SubSeq(rs, k + 1, Len(rs)))>> ELSE <<>>)

CgpaOfSemesters(rs, j, k) ==
    LET semesterGPAs == SemesterGPAs(rs, j, k)
    IN  calculateCGPA([i \in DOMAIN semesterGPAs |-> SemesterTotals(semesterGPAs[i])])

(***************************************************************************)
(* calculatePXU, App.tsx 851-853.                                          *)
(***************************************************************************)
calculatePXU_Adds(gradePoint, courseUnit) == gradePoint + courseUnit

calculatePXU(gradePoint, courseUnit) == gradePoint * courseUnit

(***************************************************************************)
(* getClassOfDegree, App.tsx 924-931.  The argument is in hundredths; the  *)
(* thresholds 4.5, 3.5, 2.5, 1.5 and 1.0 are doubles without rounding      *)
(* error, so the double of h hundredths is >= 4.5 exactly when h >= 450.   *)
(***************************************************************************)
getClassOfDegree_StrictBounds(c) ==
    IF c > 450 THEN "First Class Honours"
    ELSE IF c > 350 THEN "Second Class Upper"
    ELSE IF c > 250 THEN "Second Class Lower"
    ELSE IF c > 150 THEN "Third Class"
    ELSE IF c > 100 THEN "Pass"
    ELSE "Fail"

getClassOfDegree(c) ==
    IF c >= 450 THEN "First Class Honours"
    ELSE IF c >= 350 THEN "Second Class Upper"
    ELSE IF c >= 250 THEN "Second Class Lower"
    ELSE IF c >= 150 THEN "Third Class"
    ELSE IF c >= 100 THEN "Pass"
    ELSE "Fail"

(***************************************************************************)
(* localStorage and the storage helpers, App.tsx 332-359.  An item is      *)
(* absent (getItem gives null) or holds an array; the JSON text of an      *)
(* array of records of strings and integers parses back to the same array, *)
(* so the item holds the array itself.                                     *)
(***************************************************************************)
STORAGE_KEYS ==
    [DEPARTMENTS |-> "gpa_departments", COURSES |-> "gpa_courses",
     CURRICULUM |-> "gpa_curriculum", STUDENTS |-> "gpa_students",
     RESULTS |-> "gpa_results"]

StorageKeys == {STORAGE_KEYS[k] : k \in DOMAIN STORAGE_KEYS}

null == [present |-> FALSE, value |-> <<>>]

Item(data) == [present |-> TRUE, value |-> data]

EmptyStorage == [key \in StorageKeys |-> null]

getFromStorage(storage, key, defaultValue) ==
    IF storage[key].present THEN storage[key].value ELSE defaultValue

saveToStorage(storage, key, data) == [storage EXCEPT ![key] = Item(data)]

\* generateId, App.tsx 344-346: the digits of the clock and of Math.random;
\* the model draws the id from this pool
GeneratedIds == {"new1"}

(***************************************************************************)
(* seedInitialData, App.tsx 365-466.                                       *)
(***************************************************************************)
SeedDepartments ==
    << [id |-> "dept1", code |-> "ITH", name |-> "Information Technology and Health Informatics"],
       [id |-> "dept2", code |-> "HIM", name |-> "Health Information Management"] >>

SeedCourses ==
    << [id |-> "crs1", courseCode |-> "GST111", courseTitle |-> "Introduction to English", courseUnit |-> 2],
       [id |-> "crs2", courseCode |-> "PHY107", courseTitle |-> "Physics Practical", courseUnit |-> 1],
       [id |-> "crs3", courseCode |-> "BIO101", courseTitle |-> "Biology", courseUnit |-> 2],
       [id |-> "crs4", courseCode |-> "CHM107", courseTitle |-> "Chemistry Practical", courseUnit |-> 1],
       [id |-> "crs5", courseCode |-> "COS101", courseTitle |-> "Computer in the society", courseUnit |-> 3],
       [id |-> "crs6", courseCode |-> "CHM101", courseTitle |-> "Chemistry I", courseUnit |-> 2],
       [id |-> "crs7", courseCode |-> "MTH101", courseTitle |-> "Elementary Mathematics ", courseUnit |-> 2],
       [id |-> "crs8", courseCode |-> "BIO107", courseTitle |-> "Biology Practical", courseUnit |-> 1],
       [id |-> "crs9", courseCode |-> "STA111", courseTitle |-> "Descriptive Statistics", courseUnit |-> 3],
       [id |-> "crs10", courseCode |-> "FRN197", courseTitle |-> "French I", courseUnit |-> 2],
       [id |-> "crs11", courseCode |-> "PHY101", courseTitle |-> "General Physics I", courseUnit |-> 2],
       [id |-> "crs12", courseCode |-> "LIS199", courseTitle |-> "Library Skills", courseUnit |-> 1],
       [id |-> "crs13", courseCode |-> "CSC204", courseTitle |-> "Discrete Mathematics", courseUnit |-> 3],
       [id |-> "crs14", courseCode |-> "CSC205", courseTitle |-> "Computer Organization", courseUnit |-> 3],
       [id |-> "crs15", courseCode |-> "CSC206", courseTitle |-> "Operating Systems", courseUnit |-> 3],
       [id |-> "crs16", courseCode |-> "CSC301", courseTitle |-> "Database Management Systems", courseUnit |-> 3],
       [id |-> "crs17", courseCode |-> "CSC302", courseTitle |-> "Software Engineering", courseUnit |-> 3],
       [id |-> "crs18", courseCode |-> "CSC303", courseTitle |-> "Computer Networks", courseUnit |-> 3],
       [id |-> "crs19", courseCode |-> "CSC304", courseTitle |-> "Algorithm Analysis", courseUnit |-> 3],
       [id |-> "crs20", courseCode |-> "CSC305", courseTitle |-> "Web Development", courseUnit |-> 3],
       [id |-> "crs21", courseCode |-> "CSC306", courseTitle |-> "Artificial Intelligence", courseUnit |-> 3] >>

SeedCurriculum ==
    << [id |-> "cur1", departmentId |-> "dept1", level |-> 100, semester |-> 1, courseId |-> "crs1"],
       [id |-> "cur2", departmentId |-> "dept1", level |-> 100, semester |-> 1, courseId |-> "crs2"],
       [id |-> "cur3", departmentId |-> "dept1", level |-> 100, semester |-> 1, courseId |-> "crs3"],
       [id |-> "cur4", departmentId |-> "dept1", level |-> 100, semester |-> 1, courseId |-> "crs4"],
       [id |-> "cur5", departmentId |-> "dept1", level |-> 100, semester |-> 1, courseId |-> "crs5"],
       [id |-> "cur6", departmentId |-> "dept1", level |-> 100, semester |-> 1, courseId |-> "crs6"],
       [id |-> "cur7", departmentId |-> "dept1", level |-> 100, semester |-> 1, courseId |-> "crs7"],
       [id |-> "cur8", departmentId |-> "dept1", level |-> 100, semester |-> 1, courseId |-> "crs8"],
       [id |-> "cur9", departmentId |-> "dept1", level |-> 100, semester |-> 1, courseId |-> "crs9"],
       [id |-> "cur5", departmentId |-> "dept1", level |-> 100, semester |-> 1, courseId |-> "crs10"],
       [id |-> "cur6", departmentId |-> "dept1", level |-> 100, semester |-> 1, courseId |-> "crs11"],
       [id |-> "cur7", departmentId |-> "dept1", level |-> 100, semester |-> 1, courseId |-> "crs12"],
       [id |-> "cur1", departmentId |-> "dept2", level |-> 100, semester |-> 1, courseId |-> "crs1"],
       [id |-> "cur2", departmentId |-> "dept2", level |-> 100, semester |-> 1, courseId |-> "crs2"],
       [id |-> "cur3", departmentId |-> "dept2", level |-> 100, semester |-> 1, courseId |-> "crs3"],
       [id |-> "cur4", departmentId |-> "dept2", level |-> 100, semester |-> 1, courseId |-> "crs4"],
       [id |-> "cur5", departmentId |-> "dept2", level |-> 100, semester |-> 1, courseId |-> "crs5"],
       [id |-> "cur6", departmentId |-> "dept2", level |-> 100, semester |-> 1, courseId |-> "crs6"],
       [id |-> "cur7", departmentId |-> "dept2", level |-> 100, semester |-> 1, courseId |-> "crs7"],
       [id |-> "cur8", departmentId |-> "dept2", level |-> 100, semester |-> 1, courseId |-> "crs8"],
       [id |-> "cur9", departmentId |-> "dept2", level |-> 100, semester |-> 1, courseId |-> "crs9"],
       [id |-> "cur5", departmentId |-> "dept2", level |-> 100, semester |-> 1, courseId |-> "crs10"],
       [id |-> "cur6", departmentId |-> "dept2", level |-> 100, semester |-> 1, courseId |-> "crs11"],
       [id |-> "cur7", departmentId |-> "dept2", level |-> 100, semester |-> 1, courseId |-> "crs12"],
       [id |-> "cur10", departmentId |-> "dept1", level |-> 200, semester |-> 1, courseId |-> "crs10"],
       [id |-> "cur11", departmentId |-> "dept1", level |-> 200, semester |-> 1, courseId |-> "crs12"],
       [id |-> "cur12", departmentId |-> "dept1", level |-> 200, semester |-> 1, courseId |-> "crs13"],
       [id |-> "cur13", departmentId |-> "dept1", level |-> 200, semester |-> 1, courseId |-> "crs14"],
       [id |-> "cur14", departmentId |-> "dept2", level |-> 200, semester |-> 2, courseId |-> "crs11"],
       [id |-> "cur15", departmentId |-> "dept2", level |-> 200, semester |-> 2, courseId |-> "crs15"],
       [id |-> "cur16", departmentId |-> "dept1", level |-> 300, semester |-> 1, courseId |-> "crs16"],
       [id |-> "cur17", departmentId |-> "dept1", level |-> 300, semester |-> 1, courseId |-> "crs17"],
       [id |-> "cur18", departmentId |-> "dept1", level |-> 300, semester |-> 1, courseId |-> "crs18"],
       [id |-> "cur19", departmentId |-> "dept1", level |-> 300, semester |-> 1, courseId |-> "crs19"],
       [id |-> "cur20", departmentId |-> "dept2", level |-> 300, semester |-> 2, courseId |-> "crs20"],
       [id |-> "cur21", departmentId |-> "dept2", level |-> 300, semester |-> 2, courseId |-> "crs21"] >>

SeedStudents ==
    << [id |-> "std1", matricNo |-> "2025/1111", fullName |-> "John Adebayo", departmentId |-> "dept1"],
       [id |-> "std2", matricNo |-> "2025/2222", fullName |-> "Mary Okonkwo", departmentId |-> "dept1"],
       [id |-> "std3", matricNo |-> "2025/3333", fullName |-> "David Emeka", departmentId |-> "dept1"],
       [id |-> "std4", matricNo |-> "2025/4444", fullName |-> "Sarah Ibrahim", departmentId |-> "dept1"],
       [id |-> "std5", matricNo |-> "2025/5555", fullName |-> "Michael Obi", departmentId |-> "dept2"],
       [id |-> "std6", matricNo |-> "2025/6666", fullName |-> "Grace Adeleke", departmentId |-> "dept2"],
       [id |-> "std7", matricNo |-> "2025/7777", fullName |-> "Peter Nnamdi", departmentId |-> "dept2"] >>

SeededStorage ==
    saveToStorage(
      saveToStorage(
        saveToStorage(
          saveToStorage(
            saveToStorage(EmptyStorage, STORAGE_KEYS.DEPARTMENTS, SeedDepartments),
            STORAGE_KEYS.COURSES, SeedCourses),
          STORAGE_KEYS.CURRICULUM, SeedCurriculum),
        STORAGE_KEYS.STUDENTS, SeedStudents),
      STORAGE_KEYS.RESULTS, <<>>)

seedInitialData_AlwaysSeeds(storage) ==
    saveToStorage(
      saveToStorage(
        saveToStorage(
          saveToStorage(
            saveToStorage(storage, STORAGE_KEYS.DEPARTMENTS, SeedDepartments),
            STORAGE_KEYS.COURSES, SeedCourses),
          STORAGE_KEYS.CURRICULUM, SeedCurriculum),
        STORAGE_KEYS.STUDENTS, SeedStudents),
      STORAGE_KEYS.RESULTS, <<>>)

seedInitialData(storage) ==
    IF storage[STORAGE_KEYS.DEPARTMENTS].present
    THEN storage
    ELSE saveToStorage(
           saveToStorage(
             saveToStorage(
               saveToStorage(
                 saveToStorage(storage, STORAGE_KEYS.DEPARTMENTS, SeedDepartments),
                 STORAGE_KEYS.COURSES, SeedCourses),
               STORAGE_KEYS.CURRICULUM, SeedCurriculum),
             STORAGE_KEYS.STUDENTS, SeedStudents),
           STORAGE_KEYS.RESULTS, <<>>)

\* clearAllData, App.tsx 787-789: removeItem on every storage key
clearAllData(storage) == [key \in DOMAIN storage |-> null]

(***************************************************************************)
(* createStudent, App.tsx 522-539.  The call's effect is the storage it    *)
(* leaves and its outcome.                                                 *)
(***************************************************************************)
createStudent_NoDuplicateCheck(storage, student, id) ==
    LET students == getFromStorage(storage, STORAGE_KEYS.STUDENTS, <<>>)
        newStudent == [id |-> id, matricNo |-> student.matricNo,
                       fullName |-> student.fullName,
                       departmentId |-> student.departmentId]
    IN  [storage |-> saveToStorage(storage, STORAGE_KEYS.STUDENTS,
                                   Append(students, newStudent)),
         outcome |-> Return(newStudent)]

createStudent(storage, student, id) ==
    LET students == getFromStorage(storage, STORAGE_KEYS.STUDENTS, <<>>)
        newStudent == [id |-> id, matricNo |-> student.matricNo,
                       fullName |-> student.fullName,
                       departmentId |-> student.departmentId]
    IN  IF \E i \in DOMAIN students : students[i].matricNo = student.matricNo
        THEN [storage |-> storage,
              outcome |-> Throw("Error", "Student with this matric number already exists")]
        ELSE [storage |-> saveToStorage(storage, STORAGE_KEYS.STUDENTS,
                                        Append(students, newStudent)),
              outcome |-> Return(newStudent)]

(***************************************************************************)
(* saveResults, App.tsx 542-600.                                           *)
(***************************************************************************)
\* Array.prototype.findIndex: the 0-based index of the first hit, or -1
FindIndex(hits) ==
    IF hits = {} THEN -1
    ELSE (CHOOSE i \in hits : \A j \in hits : i <= j) - 1

ExistingIndex_SemesterAgainstLevel(rs, entry) ==
    FindIndex({i \in DOMAIN rs :
        /\ rs[i].studentId = entry.studentId
        /\ rs[i].level = entry.level
        /\ rs[i].semester = entry.level
        /\ rs[i].courseCode = entry.courseCode})

\* lines 567-573
ExistingIndex(rs, entry) ==
    FindIndex({i \in DOMAIN rs :
        /\ rs[i].studentId = entry.studentId
        /\ rs[i].level = entry.level
        /\ rs[i].semester = entry.semester
        /\ rs[i].courseCode = entry.courseCode})

SaveEntry_FreshIdOnUpdate(st, entry, id) ==
    IF entry.score < 0 \/ entry.score > 100
    THEN [st EXCEPT !.error = Throw("Error", <<"Invalid score ", entry.score,
                                              " for course ", entry.courseCode>>)]
    ELSE IF scoreToGrade(entry.score).kind = "throw"
    THEN [st EXCEPT !.error = scoreToGrade(entry.score)]
    ELSE
      LET grd == scoreToGrade(entry.score).val
          gradePoint == scoreToPoint(entry.score).val
          pxu == calculatePXU(gradePoint, entry.courseUnit)
          existingIndex == ExistingIndex(st.results, entry)
          result == [id |-> id,
                     studentId |-> entry.studentId,
                     level |-> entry.level,
                     semester |-> entry.semester,
                     courseCode |-> entry.courseCode,
                     courseUnit |-> entry.courseUnit,
                     score |-> entry.score,
                     grade |-> grd,
                     gradePoint |-> gradePoint,
                     pxu |-> pxu]
      IN  [results |-> IF existingIndex >= 0
                       THEN [st.results EXCEPT ![existingIndex + 1] = result]
                       ELSE Append(st.results, result),
           savedResults |-> Append(st.savedResults, result),
           error |-> st.error]

\* one pass of the loop body, lines 556-596, on the locals results and
\* savedResults; id is what generateId would return in this pass
SaveEntry(st, entry, id) ==
    IF entry.score < 0 \/ entry.score > 100
    THEN [st EXCEPT !.error = Throw("Error", <<"Invalid score ", entry.score,
                                              " for course ", entry.courseCode>>)]
    ELSE IF scoreToGrade(entry.score).kind = "throw"
    THEN [st EXCEPT !.error = scoreToGrade(entry.score)]
    ELSE
      LET grd == scoreToGrade(entry.score).val
          gradePoint == scoreToPoint(entry.score).val
          pxu == calculatePXU(gradePoint, entry.courseUnit)
          existingIndex == ExistingIndex(st.results, entry)
          result == [id |-> IF existingIndex >= 0
                            THEN st.results[existingIndex + 1].id ELSE id,
                     studentId |-> entry.studentId,
                     level |-> entry.level,
                     semester |-> entry.semester,
                     courseCode |-> entry.courseCode,
                     courseUnit |-> entry.courseUnit,
                     score |-> entry.score,
                     grade |-> grd,
                     gradePoint |-> gradePoint,
                     pxu |-> pxu]
      IN  [results |-> IF existingIndex >= 0
                       THEN [st.results EXCEPT ![existingIndex + 1] = result]
                       ELSE Append(st.results, result),
           savedResults |-> Append(st.savedResults, result),
           error |-> st.error]

\* the for loop from entry i on; a throw leaves the loop
RECURSIVE ForEntries(_, _, _, _)
ForEntries(st, entries, ids, i) ==
    IF i > Len(entries) \/ st.error.kind = "throw" THEN st
    ELSE ForEntries(SaveEntry(st, entries[i], ids[i]), entries, ids, i + 1)

saveResults_SavesEachEntry(storage, entries, ids) ==
    LET stored == getFromStorage(storage, STORAGE_KEYS.RESULTS, <<>>)
        end == ForEntries([results |-> stored, savedResults |-> <<>>,
                           error |-> NoCall], entries, ids, 1)
    IN  [storage |-> saveToStorage(storage, STORAGE_KEYS.RESULTS, end.results),
         outcome |-> IF end.error.kind = "throw" THEN end.error
                     ELSE Return(end.savedResults)]

saveResults(storage, entries, ids) ==
    LET stored == getFromStorage(storage, STORAGE_KEYS.RESULTS, <<>>)
        end == ForEntries([results |-> stored, savedResults |-> <<>>,
                           error |-> NoCall], entries, ids, 1)
    IN  IF end.error.kind = "throw"
        THEN [storage |-> storage, outcome |-> end.error]
        ELSE [storage |-> saveToStorage(storage, STORAGE_KEYS.RESULTS, end.results),
              outcome |-> Return(end.savedResults)]

(***************************************************************************)
(* The queries of the data service, App.tsx 473-519 and 603-784.  A query  *)
(* reads the storage and writes nothing; it returns its value or null.     *)
(***************************************************************************)
\* Array.prototype.find: the first element at one of the indices, or
\* undefined
FindFirst(xs, hits) ==
    IF hits = {} THEN undefined
    ELSE xs[CHOOSE i \in hits : \A j \in hits : i <= j]

\* the gradePoint and courseUnit of each result, as handed to calculateGPA
GradeUnits(rs) ==
    [i \in DOMAIN rs |-> [gradePoint |-> rs[i].gradePoint,
                          courseUnit |-> rs[i].courseUnit]]

getDepartments(storage) ==
    getFromStorage(storage, STORAGE_KEYS.DEPARTMENTS, <<>>)

WithDepartment(storage, s) ==
    LET departments == getDepartments(storage)
    IN  [id |-> s.id, matricNo |-> s.matricNo, fullName |-> s.fullName,
         departmentId |-> s.departmentId,
         department |-> FindFirst(departments,
             {i \in DOMAIN departments : departments[i].id = s.departmentId})]

\* lines 507-519; an empty departmentId is falsy and selects every student
getStudents(storage, departmentId) ==
    LET students == getFromStorage(storage, STORAGE_KEYS.STUDENTS, <<>>)
        OfDepartment(s) == s.departmentId = departmentId
        filteredStudents == IF departmentId # ""
                            THEN SelectSeq(students, OfDepartment)
                            ELSE students
    IN  [i \in DOMAIN filteredStudents |->
            WithDepartment(storage, filteredStudents[i])]

getResults_AnySemester(storage, studentId, level, semester) ==
    LET rs == getFromStorage(storage, STORAGE_KEYS.RESULTS, <<>>)
        Wanted(r) == r.studentId = studentId /\ r.level = level
    IN  SelectSeq(rs, Wanted)

\* lines 772-784
getResults(storage, studentId, level, semester) ==
    LET rs == getFromStorage(storage, STORAGE_KEYS.RESULTS, <<>>)
        Wanted(r) == /\ r.studentId = studentId
                     /\ r.level = level
                     /\ r.semester = semester
    IN  SelectSeq(rs, Wanted)

\* lines 603-640; args holds the optional arguments given: none, the level,
\* or the level and the semester
getStudentGPA(storage, studentId, args) ==
    LET rs == getFromStorage(storage, STORAGE_KEYS.RESULTS, <<>>)
        OfStudent(r) == r.studentId = studentId
        OfLevel(r) == r.level = args[1]
        OfSemester(r) == r.semester = args[2]
        byStudent == SelectSeq(rs, OfStudent)
        byLevel == IF Len(args) >= 1 THEN SelectSeq(byStudent, OfLevel)
                   ELSE byStudent
        filteredResults == IF Len(args) >= 2 THEN SelectSeq(byLevel, OfSemester)
                           ELSE byLevel
        g == calculateGPA(GradeUnits(filteredResults))
    IN  IF Len(filteredResults) = 0 THEN null
        ELSE [studentId |-> studentId,
              level |-> IF Len(args) >= 1 THEN args[1] ELSE 0,
              semester |-> IF Len(args) >= 2 THEN args[2] ELSE 0,
              results |-> filteredResults,
              totalUnits |-> g.totalUnits,
              totalPoints |-> g.totalPoints,
              gpa |-> g.gpa]

\* String(n) of an integer, as the template literal of line 663 writes it
Digit(d) == <<"0", "1", "2", "3", "4", "5", "6", "7", "8", "9">>[d + 1]

RECURSIVE NatToString(_)
NatToString(n) ==
    IF n < 10 THEN <<Digit(n)>>
    ELSE NatToString(n \div 10) \o <<Digit(n % 10)>>

IntToString(n) ==
    IF n < 0 THEN <<"-">> \o NatToString(0 - n) ELSE NatToString(n)

\* `${result.level}-${result.semester}`
SemesterKey(r) == IntToString(r.level) \o <<"-">> \o IntToString(r.semester)

\* key.split('-'): the pieces between the hyphens
RECURSIVE Split(_, _)
Split(str, piece) ==
    IF str = <<>> THEN <<piece>>
    ELSE IF Head(str) = "-" THEN <<piece>> \o Split(Tail(str), <<>>)
    ELSE Split(Tail(str), Append(piece, Head(str)))

\* Number(piece) of a piece of digits; Number('') is 0
RECURSIVE DigitsToNumber(_, _)
DigitsToNumber(str, n) ==
    IF str = <<>> THEN n
    ELSE DigitsToNumber(Tail(str),
             10 * n + (CHOOSE d \in 0..9 : Digit(d) = Head(str)))

\* const [level, semester] = key.split('-').map(Number)
ParseKey(key) ==
    LET pieces == Split(key, <<>>)
    IN  <<DigitsToNumber(pieces[1], 0), DigitsToNumber(pieces[2], 0)>>

\* the elements of a set of numbers in ascending order
RECURSIVE Ascending(_)
Ascending(S) ==
    IF S = {} THEN <<>>
    ELSE LET m == CHOOSE x \in S : \A y \in S : x <= y
         IN  <<m>> \o Ascending(S \ {m})

\* lines 660-687: the Map keeps the keys in the order of their first result
GroupGPAs(studentId, studentResults) ==
    LET firsts == Ascending({i \in DOMAIN studentResults :
                     \A j \in 1..(i - 1) :
                         SemesterKey(studentResults[j])
                             # SemesterKey(studentResults[i])})
    IN  [n \in DOMAIN firsts |->
            LET key == SemesterKey(studentResults[firsts[n]])
                InGroup(r) == SemesterKey(r) = key
                semResults == SelectSeq(studentResults, InGroup)
                g == calculateGPA(GradeUnits(semResults))
            IN  [studentId |-> studentId,
                 level |-> ParseKey(key)[1],
                 semester |-> ParseKey(key)[2],
                 results |-> semResults,
                 totalUnits |-> g.totalUnits,
                 totalPoints |-> g.totalPoints,
                 gpa |-> g.gpa]]

CompareSemesters_SemesterFirst(a, b) ==
    IF a.semester - b.semester # 0 THEN a.semester - b.semester
    ELSE a.level - b.level

\* the comparator of lines 705-707
CompareSemesters(a, b) ==
    IF a.level - b.level # 0 THEN a.level - b.level
    ELSE a.semester - b.semester

\* Array.prototype.sort with that comparator: stable, ascending
RECURSIVE InsertSemester(_, _)
InsertSemester(sorted, x) ==
    IF sorted = <<>> THEN <<x>>
    ELSE IF CompareSemesters(Head(sorted), x) <= 0
    THEN <<Head(sorted)>> \o InsertSemester(Tail(sorted), x)
    ELSE <<x>> \o sorted

RECURSIVE SortSemesters(_, _)
SortSemesters(xs, n) ==
    IF n = 0 THEN <<>>
    ELSE InsertSemester(SortSemesters(xs, n - 1), xs[n])

getStudentCGPA_SumsGpas(storage, studentId) ==
    LET students == getFromStorage(storage, STORAGE_KEYS.STUDENTS, <<>>)
        rs == getFromStorage(storage, STORAGE_KEYS.RESULTS, <<>>)
        hits == {i \in DOMAIN students : students[i].id = studentId}
        OfStudent(r) == r.studentId = studentId
        studentResults == SelectSeq(rs, OfStudent)
        semesterGPAs == GroupGPAs(studentId, studentResults)
        c == calculateCGPA([i \in DOMAIN semesterGPAs |->
                 [totalUnits |-> semesterGPAs[i].totalUnits,
                  totalPoints |-> semesterGPAs[i].gpa]])
    IN  IF hits = {} THEN null
        ELSE IF Len(studentResults) = 0 THEN null
        ELSE [studentId |-> studentId,
              student |-> WithDepartment(storage, FindFirst(students, hits)),
              semesterGPAs |-> SortSemesters(semesterGPAs, Len(semesterGPAs)),
              totalUnits |-> c.totalUnits,
              totalPoints |-> c.totalPoints,
              cgpa |-> c.cgpa]

\* lines 643-711
getStudentCGPA(storage, studentId) ==
    LET students == getFromStorage(storage, STORAGE_KEYS.STUDENTS, <<>>)
        rs == getFromStorage(storage, STORAGE_KEYS.RESULTS, <<>>)
        hits == {i \in DOMAIN students : students[i].id = studentId}
        OfStudent(r) == r.studentId = studentId
        studentResults == SelectSeq(rs, OfStudent)
        semesterGPAs == GroupGPAs(studentId, studentResults)
        c == calculateCGPA([i \in DOMAIN semesterGPAs |->
                 [totalUnits |-> semesterGPAs[i].totalUnits,
                  totalPoints |-> semesterGPAs[i].totalPoints]])
    IN  IF hits = {} THEN null
        ELSE IF Len(studentResults) = 0 THEN null
        ELSE [studentId |-> studentId,
              student |-> WithDepartment(storage, FindFirst(students, hits)),
              semesterGPAs |-> SortSemesters(semesterGPAs, Len(semesterGPAs)),
              totalUnits |-> c.totalUnits,
              totalPoints |-> c.totalPoints,
              cgpa |-> c.cgpa]

\* the sum of the stored pxu of the results, lines 742-745
RECURSIVE SumPxu(_, _)
SumPxu(rs, n) == IF n = 0 THEN 0 ELSE SumPxu(rs, n - 1) + rs[n].pxu

RECURSIVE SumCourseUnit(_, _)
SumCourseUnit(rs, n) ==
    IF n = 0 THEN 0 ELSE SumCourseUnit(rs, n - 1) + rs[n].courseUnit

\* one element of studentReports, lines 726-754
StudentReport(storage, student, level, semester) ==
    LET rs == getFromStorage(storage, STORAGE_KEYS.RESULTS, <<>>)
        OfSemester(r) == /\ r.studentId = student.id
                         /\ r.level = level
                         /\ r.semester = semester
        OfStudent(r) == r.studentId = student.id
        resultsOfSemester == SelectSeq(rs, OfSemester)
        allResults == SelectSeq(rs, OfStudent)
    IN  [student |-> student,
         gpa |-> calculateGPA(GradeUnits(resultsOfSemester)).gpa,
         cgpa |-> calculateCGPA(
                      <<[totalUnits |-> SumCourseUnit(allResults, Len(allResults)),
                         totalPoints |-> SumPxu(allResults, Len(allResults))]>>).cgpa,
         results |-> resultsOfSemester]

getDepartmentReport_KeepsEveryStudent(storage, departmentId, level, semester) ==
    LET departments == getDepartments(storage)
        hits == {i \in DOMAIN departments : departments[i].id = departmentId}
        students == getStudents(storage, departmentId)
        studentReports == [i \in DOMAIN students |->
                              StudentReport(storage, students[i], level, semester)]
    IN  IF hits = {} THEN null
        ELSE [department |-> FindFirst(departments, hits),
              level |-> level,
              semester |-> semester,
              students |-> studentReports]

\* lines 714-769
getDepartmentReport(storage, departmentId, level, semester) ==
    LET departments == getDepartments(storage)
        hits == {i \in DOMAIN departments : departments[i].id = departmentId}
        students == getStudents(storage, departmentId)
        studentReports == [i \in DOMAIN students |->
                              StudentReport(storage, students[i], level, semester)]
        HasResults(s) == Len(s.results) > 0
    IN  IF hits = {} THEN null
        ELSE [department |-> FindFirst(departments, hits),
              level |-> level,
              semester |-> semester,
              students |-> SelectSeq(studentReports, HasResults)]

(***************************************************************************)
(* ScoreEntry, part_000 27-137, and the data service query it loads the    *)
(* course table with.  A handler is a function of the component state, the *)
(* filter and the storage.                                                 *)
(***************************************************************************)
\* App.tsx 483-504
getCurriculum(storage, departmentId, level, semester) ==
    LET curriculum == getFromStorage(storage, STORAGE_KEYS.CURRICULUM, <<>>)
        courses == getFromStorage(storage, STORAGE_KEYS.COURSES, <<>>)
        Wanted(c) == /\ c.departmentId = departmentId
                     /\ c.level = level
                     /\ c.semester = semester
        wanted == SelectSeq(curriculum, Wanted)
        withCourse == [i \in DOMAIN wanted |->
            [id |-> wanted[i].id, departmentId |-> wanted[i].departmentId,
             level |-> wanted[i].level, semester |-> wanted[i].semester,
             courseId |-> wanted[i].courseId,
             course |-> FindFirst(courses,
                 {k \in DOMAIN courses : courses[k].id = wanted[i].courseId})]]
        HasCourse(c) == c.course # undefined
    IN  SelectSeq(withCourse, HasCourse)

\* the cell of initialScores for one student and one course, lines 49-61
InitialScore(storage, flt, studentId, courseCode) ==
    LET existingResults == getResults(storage, studentId, flt.level, flt.semester)
        hits == {k \in DOMAIN existingResults :
                    existingResults[k].courseCode = courseCode}
    IN  IF hits = {} THEN <<>>
        ELSE <<FindFirst(existingResults, hits).score>>

\* the effect of lines 35-64, run when the filter has changed
FilterEffect(se, flt, storage) ==
    LET curriculumData == getCurriculum(storage, flt.departmentId,
                                        flt.level, flt.semester)
        studentData == getStudents(storage, flt.departmentId)
    IN  [se EXCEPT
            !.curriculum = curriculumData,
            !.students = studentData,
            !.scores =
                [studentId \in {studentData[i].id : i \in DOMAIN studentData} |->
                    [courseCode \in {curriculumData[j].course.courseCode :
                                        j \in DOMAIN curriculumData} |->
                        InitialScore(storage, flt, studentId, courseCode)]]]

\* parseInt(value): white space is skipped, a sign is read, then the digits
\* up to the first character that is not one; NaN when there is no digit
IsDigit(ch) == \E d \in 0..9 : Digit(d) = ch

RECURSIVE TrimStart(_)
TrimStart(str) ==
    IF str # <<>> /\ Head(str) = " " THEN TrimStart(Tail(str)) ELSE str

RECURSIVE DigitPrefix(_)
DigitPrefix(str) ==
    IF str # <<>> /\ IsDigit(Head(str))
    THEN <<Head(str)>> \o DigitPrefix(Tail(str))
    ELSE <<>>

ParseInt(value) ==
    LET trimmed == TrimStart(value)
        signed == trimmed # <<>> /\ Head(trimmed) \in {"-", "+"}
        digits == DigitPrefix(IF signed THEN Tail(trimmed) ELSE trimmed)
        n == DigitsToNumber(digits, 0)
    IN  IF digits = <<>> THEN [nan |-> TRUE, val |-> 0]
        ELSE [nan |-> FALSE,
              val |-> IF signed /\ Head(trimmed) = "-" THEN 0 - n ELSE n]

\* parseInt(value) || 0
ParseIntOrZero(value) ==
    IF ParseInt(value).nan THEN 0 ELSE ParseInt(value).val

MathMax(a, b) == IF a >= b THEN a ELSE b

MathMin(a, b) == IF a <= b THEN a ELSE b

\* setScores of lines 69-75
WithScore(se, studentId, courseCode, numValue) ==
    LET prev == se.scores
        row == IF studentId \in DOMAIN prev THEN prev[studentId] ELSE <<>>
    IN  [se EXCEPT !.scores =
            [s \in DOMAIN prev \cup {studentId} |->
                IF s = studentId
                THEN [c \in DOMAIN row \cup {courseCode} |->
                         IF c = courseCode THEN numValue ELSE row[c]]
                ELSE prev[s]]]

handleScoreChange_NoClamp(se, studentId, courseCode, value) ==
    WithScore(se, studentId, courseCode,
              IF value = <<>> THEN <<>> ELSE <<ParseIntOrZero(value)>>)

\* lines 66-79
handleScoreChange(se, studentId, courseCode, value) ==
    WithScore(se, studentId, courseCode,
              IF value = <<>> THEN <<>>
              ELSE <<MathMin(100, MathMax(0, ParseIntOrZero(value)))>>)

\* lines 96-115: the entries of the cells that are not empty, student by
\* student and course by course in the order the scores were loaded in
BuildEntries(se, flt) ==
    LET nCourses == Len(se.curriculum)
        cells == [p \in 1..(Len(se.students) * nCourses) |->
                     [studentId |-> se.students[((p - 1) \div nCourses) + 1].id,
                      courseCode |-> se.curriculum[((p - 1) % nCourses) + 1]
                                         .course.courseCode]]
        Entered(x) == se.scores[x.studentId][x.courseCode] # <<>>
        entered == SelectSeq(cells, Entered)
    IN  [i \in DOMAIN entered |->
            LET course == FindFirst(se.curriculum,
                              {k \in DOMAIN se.curriculum :
                                  se.curriculum[k].course.courseCode
                                      = entered[i].courseCode}).course
            IN  [studentId |-> entered[i].studentId,
                 level |-> flt.level,
                 semester |-> flt.semester,
                 courseCode |-> entered[i].courseCode,
                 courseUnit |-> course.courseUnit,
                 score |-> se.scores[entered[i].studentId]
                                    [entered[i].courseCode][1]]]

\* saveResults as handleSave calls it: localStorage.setItem of line 358
\* throws when the browser refuses the write (the storage is full), and
\* nothing is written then; saved is what saveResults does otherwise
QuotaOutcome(storage, saved, setItemThrows) ==
    IF saved.outcome.kind = "return" /\ setItemThrows
    THEN [storage |-> storage,
          outcome |-> Throw("QuotaExceededError", <<"The quota has been exceeded.">>)]
    ELSE saved

saveResultsOrQuota(storage, entries, ids, setItemThrows) ==
    QuotaOutcome(storage, saveResults(storage, entries, ids), setItemThrows)

AfterSave_KeepsSaving(started, entries, storage, trigger, saved) ==
    IF Len(entries) = 0
    THEN [scoreEntry |-> [started EXCEPT
              !.message = [type |-> "error",
                           text |-> <<"No scores entered to save">>]],
          storage |-> storage,
          refreshTrigger |-> trigger]
    ELSE IF saved.outcome.kind = "throw"
    THEN [scoreEntry |-> [started EXCEPT
              !.message = [type |-> "error", text |-> saved.outcome.message],
              !.saving = FALSE],
          storage |-> saved.storage,
          refreshTrigger |-> trigger]
    ELSE [scoreEntry |-> [started EXCEPT
              !.message = [type |-> "success",
                           text |-> <<"Successfully saved ", Len(entries),
                             " results with auto-calculated grades!">>],
              !.saving = FALSE],
          storage |-> saved.storage,
          refreshTrigger |-> trigger + 1]

\* lines 117-136, after setSaving(true) and setMessage(null): saved is
\* what the call of saveResults of line 123 does when it is reached;
\* onResultsSaved is App's handleResultsSaved (App.tsx 41-43), which adds
\* one to refreshTrigger
AfterSave(started, entries, storage, trigger, saved) ==
    IF Len(entries) = 0
    THEN [scoreEntry |-> [started EXCEPT
              !.message = [type |-> "error",
                           text |-> <<"No scores entered to save">>],
              !.saving = FALSE],
          storage |-> storage,
          refreshTrigger |-> trigger]
    ELSE IF saved.outcome.kind = "throw"
    THEN [scoreEntry |-> [started EXCEPT
              !.message = [type |-> "error", text |-> saved.outcome.message],
              !.saving = FALSE],
          storage |-> saved.storage,
          refreshTrigger |-> trigger]
    ELSE [scoreEntry |-> [started EXCEPT
              !.message = [type |-> "success",
                           text |-> <<"Successfully saved ", Len(entries),
                             " results with auto-calculated grades!">>],
              !.saving = FALSE],
          storage |-> saved.storage,
          refreshTrigger |-> trigger + 1]

\* lines 82-137 on the entries built from the scores
SaveEntries(se, entries, storage, trigger, ids, setItemThrows) ==
    AfterSave([se EXCEPT !.saving = TRUE, !.message = null], entries, storage,
              trigger, saveResultsOrQuota(storage, entries, ids, setItemThrows))

\* lines 82-137
handleSave(se, flt, storage, trigger, ids, setItemThrows) ==
    SaveEntries(se, BuildEntries(se, flt), storage, trigger, ids, setItemThrows)

(***************************************************************************)
(* One call of an engine function on the current arguments.  The engine    *)
(* reads its arguments and the grading scale and writes nothing.           *)
(***************************************************************************)
ScoreToGrade ==
    /\ fn' = "scoreToGrade"
    /\ gradeEntry' = IF score < 0 \/ score > 100 THEN gradeEntry ELSE ScoreBand(score)
    /\ ret' = scoreToGrade(score)
    /\ UNCHANGED <<app, inputs, localStorage>>

GradeToPoint ==
    /\ fn' = "gradeToPoint"
    /\ gradeEntry' = GradeBand(grade)
    /\ ret' = Return(gradeToPoint(grade))
    /\ UNCHANGED <<app, inputs, localStorage>>

ScoreToPoint ==
    /\ fn' = "scoreToPoint"
    /\ gradeEntry' = IF score < 0 \/ score > 100 THEN gradeEntry
                     ELSE GradeBand(scoreToGrade(score).val)
    /\ ret' = scoreToPoint(score)
    /\ UNCHANGED <<app, inputs, localStorage>>

CalculateGPA_ShiftsInput ==
    /\ fn' = "calculateGPA"
    /\ ret' = Return(calculateGPA(results))
    /\ results' = IF results = <<>> THEN results ELSE Tail(results)
    /\ UNCHANGED <<app, score, grade, semesterResults, pxuArgs, cgpa,
                   localStorage, gradeEntry>>

CalculateGPA ==
    /\ fn' = "calculateGPA"
    /\ ret' = Return(calculateGPA(results))
    /\ UNCHANGED <<app, inputs, localStorage, gradeEntry>>

CalculateCGPA ==
    /\ fn' = "calculateCGPA"
    /\ ret' = Return(calculateCGPA(semesterResults))
    /\ UNCHANGED <<app, inputs, localStorage, gradeEntry>>

CalculatePXU ==
    /\ fn' = "calculatePXU"
    /\ ret' = Return(calculatePXU(pxuArgs.gradePoint, pxuArgs.courseUnit))
    /\ UNCHANGED <<app, inputs, localStorage, gradeEntry>>

GetClassOfDegree ==
    /\ fn' = "getClassOfDegree"
    /\ ret' = Return(getClassOfDegree(cgpa))
    /\ UNCHANGED <<app, inputs, localStorage, gradeEntry>>

(***************************************************************************)
(* One call of a data service function on the stored data.  A function     *)
(* that returns nothing returns undefined, held as Return("undefined").    *)
(***************************************************************************)
\* the students createStudent is called with: a matricNo of the seed data
\* and one that is not
StudentInputs ==
    {[matricNo |-> m, fullName |-> "Ada Obi", departmentId |-> "dept1"] :
        m \in {"2025/1111", "2025/8888"}}

\* the entries saveResults is called with: the first two seeded courses of
\* one student in one semester; the scores entered lie on both sides of 0
\* and of 100, and one course is entered with two valid scores
EntryCourses == {SeedCourses[1], SeedCourses[2]}

EntryScores(c) ==
    IF c.courseCode = "GST111" THEN {0 - 1, 45, 70} ELSE {70, 101}

Entries ==
    UNION {{[studentId |-> "std1", level |-> 100, semester |-> 1,
             courseCode |-> c.courseCode, courseUnit |-> c.courseUnit,
             score |-> x] : x \in EntryScores(c)} : c \in EntryCourses}

EntryInputs == UNION {[1..k -> Entries] : k \in 0..MaxEntries}

SeedInitialData ==
    /\ fn' = "seedInitialData"
    /\ localStorage' = seedInitialData(localStorage)
    /\ ret' = Return("undefined")
    /\ UNCHANGED <<app, inputs, gradeEntry>>

ClearAllData ==
    /\ fn' = "clearAllData"
    /\ localStorage' = clearAllData(localStorage)
    /\ ret' = Return("undefined")
    /\ UNCHANGED <<app, inputs, gradeEntry>>

CreateStudent ==
    \E student \in StudentInputs, id \in GeneratedIds :
        /\ fn' = "createStudent"
        /\ localStorage' = createStudent(localStorage, student, id).storage
        /\ ret' = createStudent(localStorage, student, id).outcome
        /\ UNCHANGED <<app, inputs, gradeEntry>>

\* one call saveResults(entries) in which generateId returns ids[i] in pass i
CallSaveResults(entries, ids) ==
    /\ fn' = "saveResults"
    /\ localStorage' = saveResults(localStorage, entries, ids).storage
    /\ ret' = saveResults(localStorage, entries, ids).outcome
    /\ UNCHANGED <<app, inputs, gradeEntry>>

SaveResults ==
    \E entries \in EntryInputs :
        \E ids \in [DOMAIN entries -> GeneratedIds] :
            CallSaveResults(entries, ids)

\* saveResults on valid entries only, with two ids for generateId to return:
\* a record that keeps its id is told from one that is given a fresh id
UpsertIds == {"new1", "new2"}

UpsertScores(c) ==
    IF c.courseCode = "GST111" THEN {45, 70} ELSE {70}

UpsertEntries ==
    UNION {{[studentId |-> "std1", level |-> 100, semester |-> 1,
             courseCode |-> c.courseCode, courseUnit |-> c.courseUnit,
             score |-> x] : x \in UpsertScores(c)} : c \in EntryCourses}

UpsertInputs == UNION {[1..k -> UpsertEntries] : k \in 0..MaxEntries}

SaveResultsUpsert ==
    \E entries \in UpsertInputs :
        \E ids \in [DOMAIN entries -> UpsertIds] :
            CallSaveResults(entries, ids)

\* a score entered for a course of the catalogue
EntryOf(studentId, level, semester, c, x) ==
    [studentId |-> studentId, level |-> level, semester |-> semester,
     courseCode |-> c.courseCode, courseUnit |-> c.courseUnit, score |-> x]

\* saveResults on one course entered for two students and in two semesters,
\* with two scores for one of the keys
ReadBackEntries ==
    {EntryOf("std1", 100, 2, SeedCourses[1], 45),
     EntryOf("std1", 100, 2, SeedCourses[1], 70),
     EntryOf("std1", 100, 1, SeedCourses[1], 45),
     EntryOf("std5", 100, 2, SeedCourses[1], 45)}

ReadBackInputs == UNION {[1..k -> ReadBackEntries] : k \in 0..MaxEntries}

SaveResultsReadBack ==
    \E entries \in ReadBackInputs :
        \E ids \in [DOMAIN entries -> GeneratedIds] :
            CallSaveResults(entries, ids)

\* the arguments the queries are called with: a student of each department
\* and an id no student has; a department id no department has
QueryStudents == {"std1", "std5", "std9"}

QueryLevels == {100, 200}

QuerySemesters == {1, 2}

QueryDepartments == {"dept1", "dept2", "dept9"}

GetResults ==
    \E studentId \in QueryStudents, level \in QueryLevels,
       semester \in QuerySemesters :
        /\ fn' = "getResults"
        /\ ret' = Return(getResults(localStorage, studentId, level, semester))
        /\ UNCHANGED <<app, inputs, localStorage, gradeEntry>>

\* the entries of the study of the reports: two courses of one semester,
\* a second semester of a higher level, and a student of the other
\* department
ReportEntries ==
    {EntryOf("std1", 200, 1, SeedCourses[1], 70),
     EntryOf("std1", 100, 2, SeedCourses[1], 45),
     EntryOf("std1", 100, 2, SeedCourses[2], 70),
     EntryOf("std5", 100, 2, SeedCourses[1], 45)}

ReportInputs == UNION {[1..k -> ReportEntries] : k \in 0..MaxSaved}

SaveResultsReport ==
    \E entries \in ReportInputs :
        \E ids \in [DOMAIN entries -> GeneratedIds] :
            CallSaveResults(entries, ids)

\* getStudentGPA(id), getStudentGPA(id, level), getStudentGPA(id, level,
\* semester)
GpaArgs ==
    {<<>>} \cup {<<level>> : level \in QueryLevels}
           \cup {<<level, semester>> :
                    level \in QueryLevels, semester \in QuerySemesters}

GetStudentGPA ==
    \E studentId \in QueryStudents, args \in GpaArgs :
        /\ fn' = "getStudentGPA"
        /\ ret' = Return(getStudentGPA(localStorage, studentId, args))
        /\ UNCHANGED <<app, inputs, localStorage, gradeEntry>>

GetStudentCGPA ==
    \E studentId \in QueryStudents :
        /\ fn' = "getStudentCGPA"
        /\ ret' = Return(getStudentCGPA(localStorage, studentId))
        /\ UNCHANGED <<app, inputs, localStorage, gradeEntry>>

GetDepartmentReport ==
    \E departmentId \in QueryDepartments, level \in QueryLevels,
       semester \in QuerySemesters :
        /\ fn' = "getDepartmentReport"
        /\ ret' = Return(getDepartmentReport(localStorage, departmentId,
                                             level, semester))
        /\ UNCHANGED <<app, inputs, localStorage, gradeEntry>>

(***************************************************************************)
(* One event of the user interface: a filter is selected (App.tsx 36-38,   *)
(* then ScoreEntry's effect), a score is typed, Save is clicked.           *)
(***************************************************************************)
\* the selections: the first semester of dept1 and a semester of dept2
FilterInputs ==
    {[departmentId |-> "dept1", level |-> 100, semester |-> 1],
     [departmentId |-> "dept2", level |-> 200, semester |-> 2]}

\* the cell typed into, and the characters typed: a digit, a sign and a
\* letter
EditStudents == {"std1"}

EditCourses == {"GST111"}

ValueChars == {"1", "-", "a"}

ValueInputs == UNION {[1..k -> ValueChars] : k \in 0..MaxValueLen}

HandleFilterSelect ==
    \E newFilter \in FilterInputs :
        /\ fn' = "handleFilterSelect"
        /\ filter' = newFilter
        /\ scoreEntry' = FilterEffect(scoreEntry, newFilter, localStorage)
        /\ ret' = Return("undefined")
        /\ UNCHANGED <<inputs, localStorage, gradeEntry, refreshTrigger>>

\* the inputs rendered are those of the cells of scores
HandleScoreChange ==
    /\ filter # null
    /\ \E studentId \in EditStudents, courseCode \in EditCourses,
          value \in ValueInputs :
        /\ studentId \in DOMAIN scoreEntry.scores
        /\ courseCode \in DOMAIN scoreEntry.scores[studentId]
        /\ fn' = "handleScoreChange"
        /\ scoreEntry' = handleScoreChange(scoreEntry, studentId, courseCode, value)
        /\ ret' = Return("undefined")
        /\ UNCHANGED <<inputs, localStorage, gradeEntry, filter, refreshTrigger>>

HandleSave ==
    /\ filter # null
    /\ refreshTrigger < MaxRefresh
    /\ \E setItemThrows \in BOOLEAN :
        \E ids \in [DOMAIN BuildEntries(scoreEntry, filter) -> GeneratedIds] :
            \E done \in {handleSave(scoreEntry, filter, localStorage,
                                    refreshTrigger, ids, setItemThrows)} :
                /\ fn' = "handleSave"
                /\ scoreEntry' = done.scoreEntry
                /\ localStorage' = done.storage
                /\ refreshTrigger' = done.refreshTrigger
                /\ ret' = Return("undefined")
                /\ UNCHANGED <<inputs, gradeEntry, filter>>

(***************************************************************************)
(* The arguments the calls are made on.                                    *)
(***************************************************************************)
SeqsUpTo(S, n) == UNION {[1..k -> S] : k \in 0..n}

ScoreInputs == (0 - ScoreSlack)..(100 + ScoreSlack)

GradeChars == {"A", "B", "C", "D", "E", "F", "Z",
               "a", "b", "c", "d", "e", "f", "z", "+", " "}

GradeInputs == SeqsUpTo(GradeChars, MaxGradeLen)

Untouched ==
    /\ fn = "none"
    /\ gradeEntry = undefined
    /\ ret = NoCall

\* the useState initial values of App (App.tsx 25-27) and of ScoreEntry
\* (part_000 28-32); an empty scores cell '' is held as << >> and a cell
\* with the number n as <<n>>
InitialScoreEntry ==
    [curriculum |-> <<>>, students |-> <<>>, scores |-> <<>>,
     saving |-> FALSE, message |-> null]

AppAtStart ==
    /\ filter = null
    /\ refreshTrigger = 0
    /\ scoreEntry = InitialScoreEntry

\* the arguments of calculatePXU and of getClassOfDegree when another
\* function is under study
NoPxuArgs == [gradePoint |-> 0, courseUnit |-> 0]

OtherArgsIdle ==
    /\ pxuArgs = NoPxuArgs
    /\ cgpa = 0

\* the app has started: App's mount effect (App.tsx 27-29) has seeded the
\* storage
Seeded == localStorage = SeededStorage

\* the score and grade functions: one of the two arguments is drawn widely
InitGrade ==
    /\ \/ score \in ScoreInputs /\ grade = <<"A">>
       \/ score = 0 /\ grade \in GradeInputs
    /\ results = <<>>
    /\ semesterResults = <<>>
    /\ OtherArgsIdle
    /\ Seeded
    /\ Untouched
    /\ AppAtStart

NextGrade == ScoreToGrade \/ GradeToPoint \/ ScoreToPoint

SpecGrade == InitGrade /\ [][NextGrade]_vars

\* the averaging functions on short lists of courses and of semester
\* aggregates; a unit may be 0 or negative, which neither function rejects
GradePoints == 0..5

ResultInputs ==
    SeqsUpTo([gradePoint : GradePoints, courseUnit : (0 - 1)..MaxUnit], MaxLen)

SemesterInputs ==
    SeqsUpTo([totalUnits : (0 - 1)..MaxSemUnits, totalPoints : 0..MaxSemPoints], MaxLen)

InitGPA ==
    /\ \/ results \in ResultInputs /\ semesterResults = <<>>
       \/ results = <<>> /\ semesterResults \in SemesterInputs
    /\ score = 0
    /\ grade = <<"A">>
    /\ OtherArgsIdle
    /\ Seeded
    /\ Untouched
    /\ AppAtStart

NextGPA == CalculateGPA \/ CalculateCGPA

SpecGPA == InitGPA /\ [][NextGPA]_vars

\* calculateGPA on one or two courses of up to RoundMaxUnit units
RoundInputs ==
    SeqsUpTo([gradePoint : GradePoints, courseUnit : 0..RoundMaxUnit], 2)

InitRound ==
    /\ results \in RoundInputs
    /\ semesterResults = <<>>
    /\ score = 0
    /\ grade = <<"A">>
    /\ OtherArgsIdle
    /\ Seeded
    /\ Untouched
    /\ AppAtStart

SpecRound == InitRound /\ [][NextGPA]_vars

\* calculateCGPA on one or two semesters of up to RoundMaxUnit units and
\* RoundMaxUnit points each
RoundSemesterInputs ==
    SeqsUpTo([totalUnits : 0..RoundMaxUnit, totalPoints : 0..RoundMaxUnit], 2)

InitRoundCGPA ==
    /\ semesterResults \in RoundSemesterInputs
    /\ results = <<>>
    /\ score = 0
    /\ grade = <<"A">>
    /\ OtherArgsIdle
    /\ Seeded
    /\ Untouched
    /\ AppAtStart

NextCGPA == CalculateCGPA

SpecRoundCGPA == InitRoundCGPA /\ [][NextCGPA]_vars

\* calculateCGPA on lists of up to MaxFoldLen semester aggregates such as
\* calculateGPA returns them for courses of grade points 0..5 and positive units
SemesterAggregates ==
    {a \in [totalUnits : 0..MaxSemUnits, totalPoints : 0..MaxSemPoints] :
        a.totalPoints <= 5 * a.totalUnits}

FoldInputs == SeqsUpTo(SemesterAggregates, MaxFoldLen)

InitFold ==
    /\ semesterResults \in FoldInputs
    /\ results = <<>>
    /\ score = 0
    /\ grade = <<"A">>
    /\ OtherArgsIdle
    /\ Seeded
    /\ Untouched
    /\ AppAtStart

SpecFold == InitFold /\ [][NextGPA]_vars

\* every engine function, one argument drawn widely at a time; the lists are
\* such as the data service passes: courses of positive units, and the
\* aggregates calculateGPA returns for them
EngineResultInputs ==
    SeqsUpTo([gradePoint : GradePoints, courseUnit : 1..MaxUnit], MaxLen)

EngineSemesterInputs == SeqsUpTo(SemesterAggregates, MaxLen)

PxuInputs == [gradePoint : GradePoints, courseUnit : 0..MaxUnit]

CgpaInputs == (0 - CgpaSlack)..(500 + CgpaSlack)

InitEngine ==
    /\ \/ /\ score \in ScoreInputs /\ grade = <<"A">>
          /\ results = <<>> /\ semesterResults = <<>> /\ OtherArgsIdle
       \/ /\ score = 0 /\ grade \in GradeInputs
          /\ results = <<>> /\ semesterResults = <<>> /\ OtherArgsIdle
       \/ /\ score = 0 /\ grade = <<"A">>
          /\ results \in EngineResultInputs /\ semesterResults = <<>>
          /\ OtherArgsIdle
       \/ /\ score = 0 /\ grade = <<"A">>
          /\ results = <<>> /\ semesterResults \in EngineSemesterInputs
          /\ OtherArgsIdle
       \/ /\ score = 0 /\ grade = <<"A">>
          /\ results = <<>> /\ semesterResults = <<>>
          /\ pxuArgs \in PxuInputs /\ cgpa = 0
       \/ /\ score = 0 /\ grade = <<"A">>
          /\ results = <<>> /\ semesterResults = <<>>
          /\ pxuArgs = NoPxuArgs /\ cgpa \in CgpaInputs
    /\ Seeded
    /\ Untouched
    /\ AppAtStart

NextEngine ==
    \/ ScoreToGrade \/ GradeToPoint \/ ScoreToPoint
    \/ CalculatePXU
    \/ CalculateGPA \/ CalculateCGPA
    \/ GetClassOfDegree

SpecEngine == InitEngine /\ [][NextEngine]_vars

\* the data service on a browser that has never run the app: the storage is
\* empty, and the engine's arguments stay as they are
Init ==
    /\ localStorage = EmptyStorage
    /\ score = 0
    /\ grade = <<"A">>
    /\ results = <<>>
    /\ semesterResults = <<>>
    /\ OtherArgsIdle
    /\ Untouched
    /\ AppAtStart

Next == SeedInitialData \/ CreateStudent \/ SaveResults \/ ClearAllData

Spec == Init /\ [][Next]_vars

\* saveResults called again and again on the seeded store
InitUpsert ==
    /\ Seeded
    /\ score = 0
    /\ grade = <<"A">>
    /\ results = <<>>
    /\ semesterResults = <<>>
    /\ OtherArgsIdle
    /\ Untouched
    /\ AppAtStart

NextUpsert == SaveResultsUpsert

SpecUpsert == InitUpsert /\ [][NextUpsert]_vars

\* results saved and read back on the seeded store
InitReadBack ==
    /\ Seeded
    /\ score = 0
    /\ grade = <<"A">>
    /\ results = <<>>
    /\ semesterResults = <<>>
    /\ OtherArgsIdle
    /\ Untouched
    /\ AppAtStart

NextReadBack == SaveResultsReadBack \/ GetResults

SpecReadBack == InitReadBack /\ [][NextReadBack]_vars

\* the reports of the data service on the stores that saving, clearing and
\* seeding lead to
InitReport ==
    /\ Seeded
    /\ score = 0
    /\ grade = <<"A">>
    /\ results = <<>>
    /\ semesterResults = <<>>
    /\ OtherArgsIdle
    /\ Untouched
    /\ AppAtStart

NextReport ==
    \/ SaveResultsReport
    \/ ClearAllData
    \/ SeedInitialData
    \/ GetStudentGPA
    \/ GetStudentCGPA
    \/ GetDepartmentReport

SpecReport == InitReport /\ [][NextReport]_vars

\* the score entry tab of the app after its mount effect has seeded the
\* storage
InitScoreEntry ==
    /\ Seeded
    /\ score = 0
    /\ grade = <<"A">>
    /\ results = <<>>
    /\ semesterResults = <<>>
    /\ OtherArgsIdle
    /\ Untouched
    /\ AppAtStart

NextScoreEntry == HandleFilterSelect \/ HandleScoreChange \/ HandleSave

SpecScoreEntry == InitScoreEntry /\ [][NextScoreEntry]_vars

(***************************************************************************)
(* Claims about the grading scale and the score and grade functions,       *)
(* checked under SpecGrade.                                                *)
(***************************************************************************)
InRange == score >= 0 /\ score <= 100

BandsOf(s) ==
    {i \in 1..Len(GRADING_SCALE) :
        GRADING_SCALE[i].minScore <= s /\ s <= GRADING_SCALE[i].maxScore}

\* C1: the scale has six bands, exactly one of which contains an in-range
\* integer score, so scoreToGrade finds a band and never takes its 'F' fallback.
C1_BandCoverage ==
    (fn = "scoreToGrade" /\ InRange) =>
        /\ Len(GRADING_SCALE) = 6
        /\ Cardinality(BandsOf(score)) = 1
        /\ gradeEntry.found
        /\ ret = Return(gradeEntry.grade)

C1_Witness ==
    fn = "scoreToGrade" /\ score = 69 /\ gradeEntry.found /\ BandsOf(score) = {2}

\* the scale of BACKEND_ARCHITECTURE.md 474-483 and of the ScoreEntry legend
DocumentedGrade(s) ==
    CASE s >= 70 /\ s <= 100 -> "A"
      [] s >= 60 /\ s <= 69 -> "B"
      [] s >= 50 /\ s <= 59 -> "C"
      [] s >= 45 /\ s <= 49 -> "D"
      [] s >= 40 /\ s <= 44 -> "E"
      [] s >= 0 /\ s <= 39 -> "F"

\* C2: scoreToGrade returns the letter of the documented scale for every
\* integer score in 0..100.
C2_DocumentedScale ==
    (fn = "scoreToGrade" /\ InRange) => ret = Return(<<DocumentedGrade(score)>>)

C2_Witness ==
    /\ fn = "scoreToGrade" /\ score = 40 /\ ret = Return(<<"E">>)
    /\ scoreToGrade(39) = Return(<<"F">>)

\* C3 as stated: an out-of-range score makes scoreToGrade and scoreToPoint
\* raise a RangeError, and gradeToPoint never raises.
C3_RaisesRangeError ==
    /\ (fn \in {"scoreToGrade", "scoreToPoint"} /\ ~InRange) =>
           (ret.kind = "throw" /\ ret.name = "RangeError")
    /\ fn = "gradeToPoint" => ret.kind = "return"

\* C3 amended: an out-of-range score makes scoreToGrade and scoreToPoint throw
\* a plain Error with the message of scoreToGrade's range check and return
\* nothing; an in-range score and gradeToPoint never throw.
C3_RaisesError ==
    /\ (fn \in {"scoreToGrade", "scoreToPoint"} /\ ~InRange) =>
           ret = Throw("Error", "Score must be between 0 and 100")
    /\ (fn \in {"scoreToGrade", "scoreToPoint"} /\ InRange) => ret.kind = "return"
    /\ fn = "gradeToPoint" => ret.kind = "return"

C3_Witness ==
    fn = "scoreToPoint" /\ score = 101 /\ ret.kind = "throw"

\* C4: scoreToPoint is within 0..5 and never decreases as the score grows.
C4_PointMonotone ==
    (fn = "scoreToPoint" /\ InRange) =>
        /\ ret.kind = "return"
        /\ ret.val \in 0..5
        /\ \A s1 \in 0..score : scoreToPoint(s1).val <= ret.val

C4_Witness ==
    fn = "scoreToPoint" /\ score = 45 /\ ret = Return(2) /\ scoreToPoint(44) = Return(1)

\* scoreToPoint of the documented backend, BACKEND_ARCHITECTURE.md 285-290:
\* the point of the band that contains the score, 0 when there is none
BackendScoreToPoint(s) ==
    LET hits == BandsOf(s)
    IN  IF hits = {} THEN 0
        ELSE GRADING_SCALE[CHOOSE i \in hits : \A j \in hits : i <= j].point

\* C5: for an in-range score the route through the grade letter gives the
\* point of the band that contains the score.
C5_LetterRouteAgrees ==
    (fn = "scoreToPoint" /\ InRange) =>
        /\ ret = Return(BackendScoreToPoint(score))
        /\ gradeEntry.found /\ score >= gradeEntry.minScore /\ score <= gradeEntry.maxScore

C5_Witness ==
    /\ fn = "scoreToPoint" /\ ret = Return(3)
    /\ score = gradeEntry.minScore /\ score = 50

GradeLetters == {"A", "B", "C", "D", "E", "F"}

LowerLetters == {"a", "b", "c", "d", "e", "f"}

LetterPoint(c) ==
    CASE c \in {"A", "a"} -> 5 [] c \in {"B", "b"} -> 4 [] c \in {"C", "c"} -> 3
      [] c \in {"D", "d"} -> 2 [] c \in {"E", "e"} -> 1 [] c \in {"F", "f"} -> 0

IsLetter(g) == Len(g) = 1 /\ g[1] \in GradeLetters \cup LowerLetters

\* C6: gradeToPoint of a grade letter in either case is the point of that
\* letter's band: A=5, B=4, C=3, D=2, E=1, F=0.
C6_CaseInsensitive ==
    (fn = "gradeToPoint" /\ IsLetter(grade)) => ret = Return(LetterPoint(grade[1]))

C6_Witness ==
    fn = "gradeToPoint" /\ grade = <<"b">> /\ ret = Return(4)

\* C7: gradeToPoint of a string that is not a grade letter returns 0 and
\* throws nothing.
C7_UnknownGradeIsZero ==
    (fn = "gradeToPoint" /\ ~IsLetter(grade)) => (ret = Return(0) /\ ~gradeEntry.found)

C7_Witness ==
    fn = "gradeToPoint" /\ grade = <<"Z">> /\ ret = Return(0)

(***************************************************************************)
(* Claims about calculateGPA and calculateCGPA, checked under SpecGPA      *)
(* (C9 under SpecRound).                                                   *)
(***************************************************************************)
\* the sum of f[i] over the indices i in S
RECURSIVE SumOver(_, _)
SumOver(f, S) ==
    IF S = {} THEN 0
    ELSE LET i == CHOOSE j \in S : \A k \in S : j >= k
         IN  f[i] + SumOver(f, S \ {i})

UnitSum == SumOver([i \in DOMAIN results |-> results[i].courseUnit], DOMAIN results)

PointSum ==
    SumOver([i \in DOMAIN results |-> results[i].gradePoint * results[i].courseUnit],
            DOMAIN results)

SemesterUnitSum ==
    SumOver([i \in DOMAIN semesterResults |-> semesterResults[i].totalUnits],
            DOMAIN semesterResults)

Reordered(xs) ==
    {[i \in DOMAIN xs |-> xs[perm[i]]] : perm \in Permutations(DOMAIN xs)}

PositiveUnits == \A i \in DOMAIN results : results[i].courseUnit > 0

\* C8: on a non-empty list of courses with positive units calculateGPA
\* returns the sum of the units and the sum of gradePoint x courseUnit, and
\* returns the same for every reordering of the list.
C8_Totals ==
    (fn = "calculateGPA" /\ results # <<>> /\ PositiveUnits) =>
        /\ ret.kind = "return"
        /\ ret.val.totalUnits = UnitSum
        /\ ret.val.totalPoints = PointSum
        /\ \A xs \in Reordered(results) : calculateGPA(xs) = ret.val

C8_Witness ==
    /\ fn = "calculateGPA"
    /\ results = << [gradePoint |-> 5, courseUnit |-> 3],
                    [gradePoint |-> 3, courseUnit |-> 2] >>
    /\ ret = Return([gpa |-> 420, totalUnits |-> 5, totalPoints |-> 21])

\* C9: when totalUnits > 0 the gpa is totalPoints / totalUnits rounded to
\* 2 decimal places, exact halves away from zero: in hundredths it is the
\* h with 2*h*totalUnits - totalUnits <= 200*totalPoints < 2*h*totalUnits + totalUnits.
C9_RoundsHalfAway ==
    (fn = "calculateGPA" /\ ret.val.totalUnits > 0) =>
        LET h == ret.val.gpa
            u == ret.val.totalUnits
            pts == ret.val.totalPoints
        IN  /\ 2 * h * u - u <= 200 * pts
            /\ 200 * pts < 2 * h * u + u

\* C10: calculateGPA and calculateCGPA return all zeros, and no error, on an
\* empty list and on a list whose units sum to 0; the gpa is then the number
\* 0, not the NaN or Infinity that a division by 0 evaluates to.
C10_NoDataIsZero ==
    /\ (fn = "calculateGPA" /\ (results = <<>> \/ UnitSum = 0)) =>
           ret = Return([gpa |-> 0, totalUnits |-> 0, totalPoints |-> 0])
    /\ (fn = "calculateCGPA" /\
           (semesterResults = <<>> \/ SemesterUnitSum = 0)) =>
           ret = Return([cgpa |-> 0, totalUnits |-> 0, totalPoints |-> 0])

C10_Witness ==
    /\ fn = "calculateGPA"
    /\ results = << [gradePoint |-> 5, courseUnit |-> 0] >>
    /\ ret = Return([gpa |-> 0, totalUnits |-> 0, totalPoints |-> 0])

(***************************************************************************)
(* Claims about calculateCGPA and getClassOfDegree.                        *)
(***************************************************************************)
SemesterPointSum ==
    SumOver([i \in DOMAIN semesterResults |-> semesterResults[i].totalPoints],
            DOMAIN semesterResults)

ClassTable ==
    << [lo |-> 450, hi |-> 500, class |-> "First Class Honours"],
       [lo |-> 350, hi |-> 449, class |-> "Second Class Upper"],
       [lo |-> 250, hi |-> 349, class |-> "Second Class Lower"],
       [lo |-> 150, hi |-> 249, class |-> "Third Class"],
       [lo |-> 100, hi |-> 149, class |-> "Pass"] >>

ClassRows(c) == {i \in DOMAIN ClassTable : ClassTable[i].lo <= c /\ c <= ClassTable[i].hi}

ClassRank(class) ==
    CASE class = "First Class Honours" -> 5
      [] class = "Second Class Upper" -> 4
      [] class = "Second Class Lower" -> 3
      [] class = "Third Class" -> 2
      [] class = "Pass" -> 1
      [] OTHER -> 0

\* C12: getClassOfDegree is the descending ladder >= 4.50 First Class
\* Honours, >= 3.50 Second Class Upper, >= 2.50 Second Class Lower, >= 1.50
\* Third Class, >= 1.00 Pass, else Fail.  For every cgpa of 0.00 .. 5.00 in
\* hundredths the class returned is that of the one table row containing
\* the cgpa (Fail when it is below 1.00 and in no row), 4.50 is First Class
\* Honours, 4.49 is Second Class Upper, and no larger cgpa has a worse class.
C12_ClassLadder ==
    (fn = "getClassOfDegree" /\ cgpa >= 0 /\ cgpa <= 500) =>
        /\ ret.kind = "return"
        /\ IF cgpa < 100
           THEN ClassRows(cgpa) = {} /\ ret.val = "Fail"
           ELSE /\ Cardinality(ClassRows(cgpa)) = 1
                /\ \A i \in ClassRows(cgpa) : ret.val = ClassTable[i].class
        /\ (cgpa = 450) => ret.val = "First Class Honours"
        /\ (cgpa = 449) => ret.val = "Second Class Upper"
        /\ \A c \in cgpa..500 :
               ClassRank(getClassOfDegree(c)) >= ClassRank(ret.val)

C12_Witness ==
    /\ fn = "getClassOfDegree"
    /\ cgpa = 450
    /\ ret = Return("First Class Honours")

Splits == {jk \in (0..Len(results)) \X (0..Len(results)) : jk[1] <= jk[2]}

\* C13: for courses of grade points 0..5 and positive units calculateGPA
\* returns 0 <= gpa <= 5 and 0 <= totalPoints <= 5 * totalUnits, and the
\* cgpa that calculateCGPA returns for the aggregates of such courses,
\* however they are divided into semesters, is within 0..5 as well.
\* Checked under SpecGPA.
C13_WithinScale ==
    (fn = "calculateGPA" /\ PositiveUnits) =>
        /\ ret.val.gpa >= 0 /\ ret.val.gpa <= 500
        /\ ret.val.totalPoints >= 0
        /\ ret.val.totalPoints <= 5 * ret.val.totalUnits
        /\ \A jk \in Splits :
               /\ CgpaOfSemesters(results, jk[1], jk[2]).cgpa >= 0
               /\ CgpaOfSemesters(results, jk[1], jk[2]).cgpa <= 500

C13_Witness ==
    /\ fn = "calculateGPA"
    /\ results = << [gradePoint |-> 5, courseUnit |-> 3],
                    [gradePoint |-> 5, courseUnit |-> 1] >>
    /\ ret = Return([gpa |-> 500, totalUnits |-> 4, totalPoints |-> 20])
    /\ CgpaOfSemesters(results, 1, 2).cgpa = 500

ValidAggregates ==
    \A i \in DOMAIN semesterResults :
        /\ semesterResults[i].totalUnits >= 0
        /\ semesterResults[i].totalPoints >= 0
        /\ semesterResults[i].totalPoints <= 5 * semesterResults[i].totalUnits

\* C14: the CGPA can be folded: with S the semesters before the last one, s
\* the last one and r = calculateCGPA(S), calculateCGPA of the two
\* aggregates <<r's totals, s>> equals calculateCGPA(S followed by s) in
\* cgpa, totalUnits and totalPoints, and every reordering of the semesters
\* gives the same result.  Checked under SpecFold.
C14_Fold ==
    (fn = "calculateCGPA" /\ semesterResults # <<>> /\ ValidAggregates) =>
        LET n == Len(semesterResults)
            r == calculateCGPA(SubSeq(semesterResults, 1, n - 1))
            folded == calculateCGPA(<< [totalUnits |-> r.totalUnits,
                                        totalPoints |-> r.totalPoints],
                                       semesterResults[n] >>)
        IN  /\ folded.cgpa = ret.val.cgpa
            /\ folded.totalUnits = ret.val.totalUnits
            /\ folded.totalPoints = ret.val.totalPoints
            /\ \A xs \in Reordered(semesterResults) : calculateCGPA(xs) = ret.val

C14_Witness ==
    /\ fn = "calculateCGPA"
    /\ semesterResults = << [totalUnits |-> 1, totalPoints |-> 3],
                            [totalUnits |-> 2, totalPoints |-> 3],
                            [totalUnits |-> 1, totalPoints |-> 0] >>
    /\ ret = Return([cgpa |-> 150, totalUnits |-> 4, totalPoints |-> 6])

\* C15 as stated: some courses of grade points 0..5 and positive units,
\* divided into semesters, get a cgpa from their per-semester calculateGPA
\* results that differs from the gpa of all the courses as one list; the
\* courses are sought among the lists calculateGPA is called on, the
\* current one included.
C15_DriftExists ==
    \E rs \in ResultInputs \cup {results} :
        /\ \A i \in DOMAIN rs : rs[i].courseUnit > 0
        /\ \E j \in 0..Len(rs), k \in 0..Len(rs) :
               j <= k /\ CgpaOfSemesters(rs, j, k).cgpa # calculateGPA(rs).gpa

\* C15: calculateCGPA is handed each semester's totalUnits and totalPoints,
\* which are integers and not rounded, so there is no drift: for courses of
\* grade points 0..5 and positive units, however they are divided into
\* semesters, the cgpa, totalUnits and totalPoints obtained from the
\* per-semester calculateGPA results equal the gpa, totalUnits and
\* totalPoints of calculateGPA on all the courses as one list.
\* Checked under SpecGPA.
C15_NoDrift ==
    (fn = "calculateGPA" /\ PositiveUnits) =>
        \A jk \in Splits :
            LET c == CgpaOfSemesters(results, jk[1], jk[2])
            IN  /\ c.cgpa = ret.val.gpa
                /\ c.totalUnits = ret.val.totalUnits
                /\ c.totalPoints = ret.val.totalPoints

C15_Witness ==
    /\ fn = "calculateGPA"
    /\ results = << [gradePoint |-> 1, courseUnit |-> 1],
                    [gradePoint |-> 0, courseUnit |-> 2] >>
    /\ ret = Return([gpa |-> 33, totalUnits |-> 3, totalPoints |-> 1])
    /\ Len(SemesterGPAs(results, 1, 2)) = 2
    /\ CgpaOfSemesters(results, 1, 2).cgpa = 33

(***************************************************************************)
(* Claims about the engine as a whole, checked under SpecEngine.           *)
(***************************************************************************)
EngineFunctions ==
    {"scoreToGrade", "gradeToPoint", "scoreToPoint", "calculatePXU",
     "calculateGPA", "calculateCGPA", "getClassOfDegree"}

\* C16: a call of scoreToGrade, gradeToPoint, scoreToPoint, calculatePXU,
\* calculateGPA, calculateCGPA or getClassOfDegree leaves its arguments (the
\* lists and records passed in) and every stored collection (departments,
\* courses, curriculum, students, results) as they were.  The grading scale
\* is a constant that no function assigns to.
C16_EngineFrame ==
    [][(fn' \in EngineFunctions) =>
          /\ score' = score /\ grade' = grade
          /\ results' = results /\ semesterResults' = semesterResults
          /\ pxuArgs' = pxuArgs /\ cgpa' = cgpa
          /\ \A key \in StorageKeys : localStorage'[key] = localStorage[key]]_vars

C16_Witness ==
    /\ fn = "calculateGPA"
    /\ results = << [gradePoint |-> 4, courseUnit |-> 2],
                    [gradePoint |-> 2, courseUnit |-> 1] >>
    /\ ret = Return([gpa |-> 333, totalUnits |-> 3, totalPoints |-> 10])
    /\ localStorage = SeededStorage
    /\ Len(localStorage[STORAGE_KEYS.STUDENTS].value) = 7

(***************************************************************************)
(* Claims about the data service, checked under Spec.                      *)
(***************************************************************************)
StoredResults == getFromStorage(localStorage, STORAGE_KEYS.RESULTS, <<>>)

StoredStudents == getFromStorage(localStorage, STORAGE_KEYS.STUDENTS, <<>>)

ResultKey(r) == <<r.studentId, r.level, r.semester, r.courseCode>>

\* C17: whatever saveResults calls have been made, also ones whose entry
\* list names a key twice, the stored results hold at most one record per
\* (studentId, level, semester, courseCode).
C17_OneRecordPerKey ==
    \A i, j \in DOMAIN StoredResults :
        ResultKey(StoredResults[i]) = ResultKey(StoredResults[j]) => i = j

\* a call whose list named one key twice has been saved as one record
C17_Witness ==
    /\ fn = "saveResults"
    /\ ret.kind = "return"
    /\ Len(ret.val) = 2
    /\ ResultKey(ret.val[1]) = ResultKey(ret.val[2])
    /\ ret.val[1].score = 45
    /\ Len(StoredResults) = 1
    /\ StoredResults[1].score = 70

MatricNos(students) == {students[i].matricNo : i \in DOMAIN students}

\* C18: createStudent either throws the error 'Student with this matric
\* number already exists' and leaves the storage as it was, or appends the
\* new student, whose matricNo no stored student had: a call with a stored
\* matricNo fails and changes nothing.  So no two stored students ever
\* share a matricNo, from the seeded students on.
C18_MatricNoUnique ==
    [][/\ (fn' = "createStudent") =>
            IF ret'.kind = "throw"
            THEN /\ ret' = Throw("Error",
                                 "Student with this matric number already exists")
                 /\ localStorage' = localStorage
            ELSE /\ ret'.val.matricNo \notin MatricNos(StoredStudents)
                 /\ StoredStudents' = Append(StoredStudents, ret'.val)
       /\ \A i, j \in DOMAIN StoredStudents' :
              StoredStudents'[i].matricNo = StoredStudents'[j].matricNo => i = j
      ]_vars

\* the matricNo of a seeded student has been refused
C18_Witness ==
    /\ fn = "createStudent"
    /\ ret.kind = "throw"
    /\ StoredStudents = SeedStudents

\* C19: every stored result has 0 <= score <= 100, the grade scoreToGrade
\* gives its score, the gradePoint scoreToPoint gives its score, and
\* pxu = gradePoint x courseUnit.
C19_StoredResultDerived ==
    \A i \in DOMAIN StoredResults :
        LET r == StoredResults[i]
        IN  /\ r.score >= 0 /\ r.score <= 100
            /\ scoreToGrade(r.score) = Return(r.grade)
            /\ scoreToPoint(r.score) = Return(r.gradePoint)
            /\ r.pxu = r.gradePoint * r.courseUnit

C19_Witness ==
    /\ fn = "saveResults"
    /\ Len(StoredResults) = 2
    /\ \E i \in DOMAIN StoredResults :
           /\ StoredResults[i].courseCode = "GST111"
           /\ StoredResults[i].score = 45
           /\ StoredResults[i].grade = <<"D">>
           /\ StoredResults[i].gradePoint = 2
           /\ StoredResults[i].courseUnit = 2
           /\ StoredResults[i].pxu = 4

HasInvalidScore(entries) ==
    \E i \in DOMAIN entries : entries[i].score < 0 \/ entries[i].score > 100

\* C20: in every state of the storage, saveResults on a list with a score
\* below 0 or above 100 anywhere in it, valid entries before it or not,
\* throws an Error and leaves the storage exactly as it is; and every
\* saveResults call that has thrown has left the storage exactly as it was.
C20_AllOrNothing ==
    /\ [](\A entries \in EntryInputs :
            \A ids \in [DOMAIN entries -> GeneratedIds] :
               HasInvalidScore(entries) =>
                  /\ saveResults(localStorage, entries, ids).outcome.kind = "throw"
                  /\ saveResults(localStorage, entries, ids).outcome.name = "Error"
                  /\ saveResults(localStorage, entries, ids).storage = localStorage)
    /\ [][(fn' = "saveResults" /\ ret'.kind = "throw") =>
              localStorage' = localStorage]_vars

\* a call has failed on the score 101 of PHY107 and the stored result of
\* GST111 is the one saved before
C20_Witness ==
    /\ fn = "saveResults"
    /\ ret = Throw("Error", <<"Invalid score ", 101, " for course ", "PHY107">>)
    /\ Len(StoredResults) = 1
    /\ StoredResults[1].courseCode = "GST111"
    /\ StoredResults[1].score = 45

(***************************************************************************)
(* C21: saveResults on an entry whose (studentId, level, semester,         *)
(* courseCode) is stored replaces that record where it stands and keeps    *)
(* its id, and adds no record for it; a stored record whose key is not     *)
(* among the entries is left as it was; and saving the list that was just  *)
(* saved once more leaves the store as it is.                              *)
(***************************************************************************)
\* the entries a list of saved records was saved from
EntriesOf(saved) ==
    [i \in DOMAIN saved |->
        [studentId |-> saved[i].studentId, level |-> saved[i].level,
         semester |-> saved[i].semester, courseCode |-> saved[i].courseCode,
         courseUnit |-> saved[i].courseUnit, score |-> saved[i].score]]

KeysOf(rs) == {ResultKey(rs[i]) : i \in DOMAIN rs}

\* the last record of saved with this key
LastWithKey(saved, key) ==
    saved[CHOOSE i \in DOMAIN saved :
              /\ ResultKey(saved[i]) = key
              /\ \A j \in DOMAIN saved : ResultKey(saved[j]) = key => j <= i]

C21_SavedAgain ==
    (fn = "saveResults" /\ ret.kind = "return") =>
        \A ids \in [DOMAIN ret.val -> UpsertIds] :
            saveResults(localStorage, EntriesOf(ret.val), ids).storage
                = localStorage

C21_InPlace ==
    (fn' = "saveResults" /\ ret'.kind = "return") =>
        LET before == StoredResults
            after == StoredResults'
            saved == ret'.val
        IN  /\ Len(after) = Len(before)
                    + Cardinality(KeysOf(saved) \ KeysOf(before))
            /\ \A i \in DOMAIN before :
                   /\ ResultKey(after[i]) = ResultKey(before[i])
                   /\ after[i].id = before[i].id
                   /\ IF ResultKey(before[i]) \in KeysOf(saved)
                      THEN after[i].score
                               = LastWithKey(saved, ResultKey(before[i])).score
                      ELSE after[i] = before[i]

C21_Upsert == [](C21_SavedAgain) /\ [][C21_InPlace]_vars

\* the last call replaced the stored GST111 record, which stands first and
\* still has the id it was created with, the other id being taken since
C21_Witness ==
    /\ fn = "saveResults" /\ ret.kind = "return"
    /\ Len(StoredResults) = 2
    /\ StoredResults[1].courseCode = "GST111"
    /\ StoredResults[1].id = "new2"
    /\ StoredResults[2].id = "new1"
    /\ ret.val = <<StoredResults[1]>>

(***************************************************************************)
(* C22: after a successful saveResults, getResults(studentId, level,       *)
(* semester) of every entry of the call holds exactly one record of the    *)
(* entry's courseCode, with the score of the last entry of that key in the *)
(* call; what getResults returns for the keys the call did not save is     *)
(* what it returned before, so the score read is that of the most recent   *)
(* call that saved the key.                                                *)
(***************************************************************************)
\* the records of rs whose key is not among keys
NotOfKeys(rs, keys) ==
    LET Other(r) == ResultKey(r) \notin keys
    IN  SelectSeq(rs, Other)

C22_ReadYourWrites ==
    [][(fn' = "saveResults" /\ ret'.kind = "return") =>
        LET saved == ret'.val
        IN  /\ \A n \in DOMAIN saved :
                  LET got == getResults(localStorage', saved[n].studentId,
                                        saved[n].level, saved[n].semester)
                      hits == {i \in DOMAIN got :
                                  got[i].courseCode = saved[n].courseCode}
                  IN  /\ Cardinality(hits) = 1
                      /\ \A i \in hits :
                             got[i].score
                                 = LastWithKey(saved, ResultKey(saved[n])).score
            /\ \A studentId \in QueryStudents, level \in QueryLevels,
                  semester \in QuerySemesters :
                  NotOfKeys(getResults(localStorage', studentId, level, semester),
                            KeysOf(saved))
                      = NotOfKeys(getResults(localStorage, studentId, level,
                                             semester), KeysOf(saved))]_vars

\* a call saved 45 and then 70 for one key, and getResults of that semester
\* returns the record with 70 and no other, while the student has a record
\* of the other semester
C22_Witness ==
    /\ fn = "saveResults" /\ ret.kind = "return"
    /\ Len(ret.val) = 2
    /\ ResultKey(ret.val[1]) = ResultKey(ret.val[2])
    /\ ret.val[1].score = 45
    /\ ret.val[2].score = 70
    /\ getResults(localStorage, "std1", 100, 2) = <<ret.val[2]>>
    /\ getResults(localStorage, "std1", 100, 1) # <<>>

(***************************************************************************)
(* C23: seedInitialData called when the departments collection is present  *)
(* leaves departments, courses, curriculum, students and results as they   *)
(* are; seeding a store that seedInitialData has just been through changes *)
(* nothing, so the calls after the first have no effect.                   *)
(***************************************************************************)
C23_SeedTwice ==
    seedInitialData(seedInitialData(localStorage)) = seedInitialData(localStorage)

C23_SeededStays ==
    (fn' = "seedInitialData" /\ localStorage[STORAGE_KEYS.DEPARTMENTS].present)
        => \A key \in StorageKeys : localStorage'[key] = localStorage[key]

C23_SeedIsNoOp == [](C23_SeedTwice) /\ [][C23_SeededStays]_vars

\* seedInitialData has just been called on a store that holds a created
\* student and saved results, which are still there
C23_Witness ==
    /\ fn = "seedInitialData"
    /\ localStorage[STORAGE_KEYS.DEPARTMENTS].present
    /\ Len(StoredStudents) > Len(SeedStudents)
    /\ StoredResults # <<>>

(***************************************************************************)
(* C24: seedInitialData never removes or replaces a student or a result    *)
(* that createStudent or saveResults stored and clearAllData has not       *)
(* removed: the records stored before the call are stored after it.        *)
(***************************************************************************)
RecordsOf(xs) == {xs[i] : i \in DOMAIN xs}

C24_SeedKeepsUserData ==
    [][fn' = "seedInitialData" =>
        /\ RecordsOf(StoredStudents) \subseteq RecordsOf(StoredStudents')
        /\ RecordsOf(StoredResults) \subseteq RecordsOf(StoredResults')]_vars

(***************************************************************************)
(* C25: the curriculum records seedInitialData writes have pairwise        *)
(* distinct ids, and no two of them have the same (departmentId, level,    *)
(* semester, courseId).                                                    *)
(***************************************************************************)
StoredCurriculum == getFromStorage(localStorage, STORAGE_KEYS.CURRICULUM, <<>>)

CurriculumKey(c) == <<c.departmentId, c.level, c.semester, c.courseId>>

C25_CurriculumKeys ==
    \A i, j \in DOMAIN StoredCurriculum :
        i # j => /\ StoredCurriculum[i].id # StoredCurriculum[j].id
                 /\ CurriculumKey(StoredCurriculum[i])
                        # CurriculumKey(StoredCurriculum[j])

(***************************************************************************)
(* C26: getStudentCGPA returns null for a student that is not stored or    *)
(* has no result; otherwise its semesterGPAs has one entry for each        *)
(* (level, semester) of the student's results, in ascending order of level *)
(* and then of semester, and its totalUnits and totalPoints are the sums   *)
(* of the entries' totalUnits and totalPoints, which are the sums of       *)
(* courseUnit and of gradePoint x courseUnit over the student's results.   *)
(***************************************************************************)
ResultsOfStudent(studentId) ==
    LET OfStudent(r) == r.studentId = studentId
    IN  SelectSeq(StoredResults, OfStudent)

StudentIds == {StoredStudents[i].id : i \in DOMAIN StoredStudents}

RECURSIVE SumGradeTimesUnit(_, _)
SumGradeTimesUnit(rs, n) ==
    IF n = 0 THEN 0
    ELSE SumGradeTimesUnit(rs, n - 1) + rs[n].gradePoint * rs[n].courseUnit

RECURSIVE SumTotalUnits(_, _)
SumTotalUnits(gs, n) ==
    IF n = 0 THEN 0 ELSE SumTotalUnits(gs, n - 1) + gs[n].totalUnits

RECURSIVE SumTotalPoints(_, _)
SumTotalPoints(gs, n) ==
    IF n = 0 THEN 0 ELSE SumTotalPoints(gs, n - 1) + gs[n].totalPoints

C26_StudentCGPA ==
    \A studentId \in QueryStudents :
        LET own == ResultsOfStudent(studentId)
            r == getStudentCGPA(localStorage, studentId)
        IN  IF studentId \notin StudentIds \/ own = <<>>
            THEN r = null
            ELSE LET gs == r.semesterGPAs
                     semesters == {<<own[i].level, own[i].semester>> :
                                      i \in DOMAIN own}
                 IN  /\ r # null
                     /\ Len(gs) = Cardinality(semesters)
                     /\ {<<gs[i].level, gs[i].semester>> : i \in DOMAIN gs}
                            = semesters
                     /\ \A i, j \in DOMAIN gs :
                            i < j => \/ gs[i].level < gs[j].level
                                     \/ /\ gs[i].level = gs[j].level
                                        /\ gs[i].semester < gs[j].semester
                     /\ r.totalUnits = SumTotalUnits(gs, Len(gs))
                     /\ r.totalPoints = SumTotalPoints(gs, Len(gs))
                     /\ r.totalUnits = SumCourseUnit(own, Len(own))
                     /\ r.totalPoints = SumGradeTimesUnit(own, Len(own))

\* getStudentCGPA has returned two semesters, level 100 semester 2 before
\* level 200 semester 1, for a student whose level 200 result was stored
\* first and whose level 100 semester holds two courses
C26_Witness ==
    /\ fn = "getStudentCGPA" /\ ret.kind = "return" /\ ret.val # null
    /\ Len(ret.val.semesterGPAs) = 2
    /\ ret.val.semesterGPAs[1].level = 100
    /\ Len(ret.val.semesterGPAs[1].results) = 2
    /\ ret.val.semesterGPAs[2].level = 200
    /\ StoredResults[1].level = 200
    /\ ret.val = getStudentCGPA(localStorage, "std1")

(***************************************************************************)
(* C27: for every student of a department report, the cgpa of the report   *)
(* is the cgpa getStudentCGPA returns for the student, and the gpa of the  *)
(* report is the gpa getStudentGPA returns for the student, the level and  *)
(* the semester.                                                           *)
(***************************************************************************)
C27_PathsAgree ==
    \A departmentId \in QueryDepartments, level \in QueryLevels,
       semester \in QuerySemesters :
        LET report == getDepartmentReport(localStorage, departmentId,
                                          level, semester)
        IN  report # null =>
                \A i \in DOMAIN report.students :
                    LET row == report.students[i]
                        c == getStudentCGPA(localStorage, row.student.id)
                        g == getStudentGPA(localStorage, row.student.id,
                                           <<level, semester>>)
                    IN  /\ c # null /\ row.cgpa = c.cgpa
                        /\ g # null /\ row.gpa = g.gpa

\* a report has been returned that lists a student with results in two
\* semesters, so that the cgpa is not the gpa of the semester reported
C27_Witness ==
    /\ fn = "getDepartmentReport" /\ ret.kind = "return" /\ ret.val # null
    /\ ret.val = getDepartmentReport(localStorage, "dept1", 100, 2)
    /\ Len(ret.val.students) = 1
    /\ ret.val.students[1].cgpa # ret.val.students[1].gpa
    /\ Len(getStudentCGPA(localStorage, "std1").semesterGPAs) = 2

(***************************************************************************)
(* C28: getDepartmentReport returns null for a department that is not      *)
(* stored; otherwise it lists, once each, the students of the department   *)
(* that have a result of the level and semester, each with the results it  *)
(* has of that level and semester and no other.                            *)
(***************************************************************************)
DepartmentIds ==
    {getDepartments(localStorage)[i].id : i \in DOMAIN getDepartments(localStorage)}

ResultsOfSemester(studentId, level, semester) ==
    LET Wanted(r) == /\ r.studentId = studentId
                     /\ r.level = level
                     /\ r.semester = semester
    IN  SelectSeq(StoredResults, Wanted)

C28_ReportRows ==
    \A departmentId \in QueryDepartments, level \in QueryLevels,
       semester \in QuerySemesters :
        LET report == getDepartmentReport(localStorage, departmentId,
                                          level, semester)
        IN  IF departmentId \notin DepartmentIds
            THEN report = null
            ELSE /\ report # null
                 /\ {report.students[i].student.id : i \in DOMAIN report.students}
                        = {StoredStudents[k].id : k \in
                              {k \in DOMAIN StoredStudents :
                                  /\ StoredStudents[k].departmentId = departmentId
                                  /\ ResultsOfSemester(StoredStudents[k].id,
                                                       level, semester) # <<>>}}
                 /\ \A i, j \in DOMAIN report.students :
                        i # j => report.students[i].student.id
                                     # report.students[j].student.id
                 /\ \A i \in DOMAIN report.students :
                        report.students[i].results
                            = ResultsOfSemester(report.students[i].student.id,
                                                level, semester)

\* a report of dept1 has been returned that lists one of its four students,
\* with one result, while that student has a result of another semester and
\* a student of dept2 has a result of the semester reported
C28_Witness ==
    /\ fn = "getDepartmentReport" /\ ret.kind = "return" /\ ret.val # null
    /\ ret.val = getDepartmentReport(localStorage, "dept1", 100, 2)
    /\ Len(ret.val.students) = 1
    /\ Len(ret.val.students[1].results) = 1
    /\ Len(ResultsOfStudent("std1")) = 2
    /\ ResultsOfSemester("std5", 100, 2) # <<>>

(***************************************************************************)
(* C29: in ScoreEntry, whatever filters were selected and whatever was     *)
(* typed, every cell of scores is empty or holds an integer from 0 to 100; *)
(* so the saveResults call handleSave would make does not throw, and no    *)
(* message shown is the invalid-score error.                               *)
(***************************************************************************)
C29_ScoresInRange ==
    /\ \A studentId \in DOMAIN scoreEntry.scores :
           \A courseCode \in DOMAIN scoreEntry.scores[studentId] :
               LET cell == scoreEntry.scores[studentId][courseCode]
               IN  cell = <<>> \/ (Len(cell) = 1 /\ cell[1] \in 0..100)
    /\ filter # null =>
           \A ids \in [DOMAIN BuildEntries(scoreEntry, filter) -> GeneratedIds] :
               saveResults(localStorage, BuildEntries(scoreEntry, filter),
                           ids).outcome.kind = "return"
    /\ scoreEntry.message # null =>
           scoreEntry.message.text[1] # "Invalid score "

\* a number above 100 has just been typed into a cell, which holds 100,
\* while results saved earlier are stored
C29_Witness ==
    /\ fn = "handleScoreChange"
    /\ scoreEntry.scores["std1"]["GST111"] = <<100>>
    /\ StoredResults # <<>>

(***************************************************************************)
(* C30: a handleSave that stores entries adds exactly one to App's         *)
(* refreshTrigger; a handleSave with no score entered, or whose            *)
(* saveResults throws, stores nothing, shows an error message and leaves   *)
(* refreshTrigger as it is; and saving is false when handleSave is over.   *)
(***************************************************************************)
C30_HandleSave ==
    [][fn' = "handleSave" =>
        LET entries == BuildEntries(scoreEntry, filter)
            shown == scoreEntry'.message
        IN  /\ scoreEntry'.saving = FALSE
            /\ shown # null
            /\ Len(entries) = 0 => shown.type = "error"
            /\ IF shown.type = "success"
               THEN /\ Len(entries) >= 1
                    /\ refreshTrigger' = refreshTrigger + 1
                    /\ \A i \in DOMAIN entries :
                           \E k \in DOMAIN StoredResults' :
                               /\ ResultKey(StoredResults'[k])
                                      = ResultKey(entries[i])
                               /\ StoredResults'[k].score = entries[i].score
               ELSE /\ shown.type = "error"
                    /\ localStorage' = localStorage
                    /\ refreshTrigger' = refreshTrigger]_vars

\* a save has stored a result and raised refreshTrigger to 1, and the save
\* after it has failed on the storage: the error is shown, refreshTrigger
\* is still 1 and saving is false
C30_Witness ==
    /\ fn = "handleSave"
    /\ refreshTrigger = 1
    /\ StoredResults # <<>>
    /\ scoreEntry.message # null
    /\ scoreEntry.message.type = "error"
    /\ scoreEntry.message.text[1] = "The quota has been exceeded."
    /\ scoreEntry.saving = FALSE

====
